---- MODULE Spec2Model ----
(***************************************************************************)
(* State-machine model of the Sui facilitator of the x402 "exact" scheme:  *)
(* ExactSuiScheme.verify and ExactSuiScheme.settle                         *)
(* (src/unnamed/part_006), the helpers they use (extractAddress,           *)
(* coinTypesEqual) and the FacilitatorSuiSigner gateway they call.         *)
(*                                                                         *)
(* Strings that the code inspects are modelled by what the code does with  *)
(* them: an error text is a sequence of phrases (String.includes looks for *)
(* a phrase), an amount is a sequence of characters (BigInt parses it), a  *)
(* coin type is an address (sequence of hex digits), a module and a name   *)
(* (normalizeStructTag pads and lower-cases the address).                  *)
(***************************************************************************)
EXTENDS Integers, Sequences, FiniteSets, TLC

\* ------------------------------------------------------------------ bounds

\* Longest balance-change list a simulation returns in the model.
MaxChanges == 2

\* Width (in hex digits) of a normalized address; 64 in the real chain.
AddrWidth == 3

\* ------------------------------------------------------------ JS values

\* The JavaScript value undefined, where a string is expected.
Undefined == "undefined"

\* undefined where a text (error text, message) is expected.
UndefinedText == <<"undefined">>

\* The empty string as a text.
EmptyText == <<>>

\* JavaScript truthiness of a string: "" and undefined are falsy.
Truthy(s) == s # "" /\ s # Undefined

\* JavaScript truthiness of a text.
TruthyText(t) == t # EmptyText /\ t # UndefinedText

\* String.prototype.includes on texts: the phrase occurs in the text.
Includes(text, phrase) == \E i \in DOMAIN text : text[i] = phrase

\* ------------------------------------------------------------ constants

SUI_MAINNET_CAIP2 == "sui:mainnet"
SUI_TESTNET_CAIP2 == "sui:testnet"

\* "0x2::sui::SUI"
SUI_COIN_TYPE == [address |-> <<"2">>, module |-> "sui", name |-> "SUI"]

\* The same coin type written with a zero-padded address.
SUI_COIN_TYPE_PADDED == [address |-> <<"0", "0", "2">>, module |-> "sui", name |-> "SUI"]

\* Circle USDC, "0xdba...::usdc::USDC" (address shortened to the model width).
USDC_MAINNET == [address |-> <<"d", "b", "a">>, module |-> "usdc", name |-> "USDC"]

\* ------------------------------------------------------- coinTypesEqual

\* String.prototype.toLowerCase on one hex digit.
ToLowerCase(ch) ==
    CASE ch = "A" -> "a"
      [] ch = "B" -> "b"
      [] ch = "C" -> "c"
      [] ch = "D" -> "d"
      [] ch = "E" -> "e"
      [] ch = "F" -> "f"
      [] OTHER -> ch

\* String.prototype.padStart(width, "0") on a sequence of hex digits.
RECURSIVE PadStart(_, _)
PadStart(digits, width) ==
    IF Len(digits) >= width THEN digits ELSE PadStart(<<"0">> \o digits, width)

\* Variant of NormalizeSuiAddress: lower-case only, no padding.
NormalizeSuiAddress_NoPadding(digits) ==
    [i \in DOMAIN digits |-> ToLowerCase(digits[i])]

\* normalizeSuiAddress: lower-case, then left-pad with zeros to the full width.
NormalizeSuiAddress(digits) ==
    PadStart([i \in DOMAIN digits |-> ToLowerCase(digits[i])], AddrWidth)

\* normalizeStructTag of @mysten/sui/utils: the address part is normalized,
\* module and name are kept as they are.
NormalizeStructTag(t) ==
    [address |-> NormalizeSuiAddress(t.address), module |-> t.module, name |-> t.name]

\* coinTypesEqual(a, b): equality after normalization.
coinTypesEqual(a, b) == NormalizeStructTag(a) = NormalizeStructTag(b)

\* ---------------------------------------------------------------- BigInt

DigitValue(ch) ==
    CASE ch = "0" -> 0 [] ch = "1" -> 1 [] ch = "2" -> 2 [] ch = "3" -> 3
      [] ch = "4" -> 4 [] ch = "5" -> 5 [] ch = "6" -> 6 [] ch = "7" -> 7
      [] ch = "8" -> 8 [] ch = "9" -> 9

IsDigit(ch) == ch \in {"0", "1", "2", "3", "4", "5", "6", "7", "8", "9"}

IsDigits(s) == Len(s) > 0 /\ \A i \in DOMAIN s : IsDigit(s[i])

RECURSIVE DigitsValue(_)
DigitsValue(s) ==
    IF s = <<>> THEN 0
    ELSE 10 * DigitsValue(SubSeq(s, 1, Len(s) - 1)) + DigitValue(s[Len(s)])

\* BigInt(string) succeeds on "", on decimal digits and on signed decimal digits.
BigIntParses(s) ==
    \/ s = <<>>
    \/ IsDigits(s)
    \/ Len(s) > 1 /\ s[1] \in {"-", "+"} /\ IsDigits(Tail(s))

\* The value BigInt(string) returns when it does not throw.
BigInt(s) ==
    IF s = <<>> THEN 0
    ELSE IF s[1] = "-" THEN 0 - DigitsValue(Tail(s))
    ELSE IF s[1] = "+" THEN DigitsValue(Tail(s))
    ELSE DigitsValue(s)

\* The SyntaxError BigInt(string) throws on any other string.
BigIntSyntaxError(s) ==
    [isError |-> TRUE, message |-> <<"Cannot convert ">> \o s \o <<" to a BigInt">>]

\* ------------------------------------------------------------ data model

\* A thrown value: an Error with a message, or any other value (its String()).
ThrownValue(isError, text) == [isError |-> isError, message |-> text]

\* error instanceof Error ? error.message : String(error)
ErrorMessageOf(error) == error.message

\* Placeholder for "nothing was thrown".
NoError == ThrownValue(FALSE, UndefinedText)

\* BalanceChange.owner: {AddressOwner: a} | {ObjectOwner: a} | {Shared: ...} | "Immutable".
AddressOwner(a) == [kind |-> "AddressOwner", value |-> a]
ObjectOwner(a) == [kind |-> "ObjectOwner", value |-> a]
SharedOwner == [kind |-> "Shared", value |-> Undefined]
ImmutableOwner == [kind |-> "Immutable", value |-> Undefined]

\* typeof owner === "string": only the Immutable variant is a bare string.
IsStringOwner(owner) == owner.kind = "Immutable"

\* extractAddress(owner): the address of an AddressOwner, "" for anything else.
extractAddress(owner) ==
    IF IsStringOwner(owner) THEN ""
    ELSE IF owner.kind = "AddressOwner" THEN owner.value
    ELSE ""

\* A VerifyResponse; absent fields are undefined.
VerifyResponse(isValid, invalidReason, invalidMessage, payer) ==
    [isValid |-> isValid, invalidReason |-> invalidReason,
     invalidMessage |-> invalidMessage, payer |-> payer]

\* A SettleResponse; absent fields are undefined.
SettleResponse(success, transaction, network, errorReason, errorMessage, payer) ==
    [success |-> success, transaction |-> transaction, network |-> network,
     errorReason |-> errorReason, errorMessage |-> errorMessage, payer |-> payer]

\* Placeholder for "no response yet".
NoVerifyResponse == VerifyResponse(FALSE, Undefined, UndefinedText, Undefined)

\* A DryRunTransactionBlockResponse, as far as verify reads it:
\* effects?.status?.status, effects?.status?.error, balanceChanges (may be absent).
DryRun(status, error, hasChanges, changes) ==
    [status |-> status, error |-> error,
     hasBalanceChanges |-> hasChanges, balanceChanges |-> changes]

NoDryRun == DryRun(Undefined, UndefinedText, FALSE, <<>>)

\* ------------------------------------------------- verify, the pure parts

\* Variant of PassesEarlyChecks: only the transaction is required of the body.
PassesEarlyChecks_TransactionOnly(pl, req) ==
    /\ ~(pl.accepted.scheme # "exact" \/ req.scheme # "exact")
    /\ ~(pl.accepted.network # req.network)
    /\ ~(~pl.payload.defined \/ ~Truthy(pl.payload.transaction))

\* Variant of PassesEarlyChecks: the network check is left to the gateway.
PassesEarlyChecks_NetworkUnchecked(pl, req) ==
    /\ ~(pl.accepted.scheme # "exact" \/ req.scheme # "exact")
    /\ ~(~pl.payload.defined \/ ~Truthy(pl.payload.transaction) \/ ~Truthy(pl.payload.signature))

\* Variant of EarlyResponse: the network is compared before the scheme.
EarlyResponse_NetworkFirst(pl, req) ==
    IF pl.accepted.network # req.network
    THEN VerifyResponse(FALSE, "network_mismatch", UndefinedText, Undefined)
    ELSE IF pl.accepted.scheme # "exact" \/ req.scheme # "exact"
    THEN VerifyResponse(FALSE, "unsupported_scheme", UndefinedText, Undefined)
    ELSE VerifyResponse(FALSE, "invalid_exact_sui_payload_transaction_could_not_be_decoded",
                        UndefinedText, Undefined)

\* Variant of EarlyResponse: the body is examined before the network.
EarlyResponse_ShapeFirst(pl, req) ==
    IF pl.accepted.scheme # "exact" \/ req.scheme # "exact"
    THEN VerifyResponse(FALSE, "unsupported_scheme", UndefinedText, Undefined)
    ELSE IF ~pl.payload.defined \/ ~Truthy(pl.payload.transaction)
            \/ ~Truthy(pl.payload.signature)
    THEN VerifyResponse(FALSE, "invalid_exact_sui_payload_transaction_could_not_be_decoded",
                        UndefinedText, Undefined)
    ELSE VerifyResponse(FALSE, "network_mismatch", UndefinedText, Undefined)

\* Steps 0, 1 and the payload-structure check of verify (lines 78-105):
\* none of the three early returns is taken.
PassesEarlyChecks(pl, req) ==
    /\ ~(pl.accepted.scheme # "exact" \/ req.scheme # "exact")
    /\ ~(pl.accepted.network # req.network)
    /\ ~(~pl.payload.defined \/ ~Truthy(pl.payload.transaction) \/ ~Truthy(pl.payload.signature))

\* The VerifyResponse of the first early return that is taken.
EarlyResponse(pl, req) ==
    IF pl.accepted.scheme # "exact" \/ req.scheme # "exact"
    THEN VerifyResponse(FALSE, "unsupported_scheme", UndefinedText, Undefined)
    ELSE IF pl.accepted.network # req.network
    THEN VerifyResponse(FALSE, "network_mismatch", UndefinedText, Undefined)
    ELSE VerifyResponse(FALSE, "invalid_exact_sui_payload_transaction_could_not_be_decoded",
                        UndefinedText, Undefined)

\* Array.prototype.find over a list whose elements were tested in order
\* (hits[i] is the predicate's value on element i): index of the first
\* element that satisfies the predicate, 0 if none.
FindIndex(hits) ==
    IF \E i \in DOMAIN hits : hits[i]
    THEN CHOOSE i \in DOMAIN hits : hits[i] /\ \A j \in 1..(i - 1) : ~hits[j]
    ELSE 0

\* The predicate of the first find (lines 138-142): recipient and coin type.
IsRecipientChange(bc, req) ==
    extractAddress(bc.owner) = req.payTo /\ coinTypesEqual(bc.coinType, req.asset)

\* The predicate of the second find (lines 146-148): recipient only.
IsAnyRecipientChange(bc, req) == extractAddress(bc.owner) = req.payTo

\* Variant of ClassifyError: the catch block rethrows, so what leaves verify
\* is the thrown value and not a VerifyResponse.
ClassifyError_Rethrows(error) ==
    [isValid |-> FALSE, invalidReason |-> Undefined,
     invalidMessage |-> ErrorMessageOf(error), payer |-> Undefined, thrown |-> error]

\* Variant of ClassifyError: errors that are no signature failure get a tag
\* of their own.
ClassifyError_UnexpectedTag(error) ==
    LET errorMessage == ErrorMessageOf(error) IN
    IF Includes(errorMessage, "Signature verification failed")
       \/ Includes(errorMessage, "Invalid signature")
    THEN VerifyResponse(FALSE,
            "invalid_exact_sui_payload_transaction_signature_verification_failed",
            errorMessage, Undefined)
    ELSE VerifyResponse(FALSE, "unexpected_verify_error", errorMessage, Undefined)

\* The catch block of verify (lines 174-196): classification by message text.
ClassifyError(error) ==
    LET errorMessage == ErrorMessageOf(error) IN
    IF Includes(errorMessage, "Signature verification failed")
       \/ Includes(errorMessage, "Invalid signature")
    THEN VerifyResponse(FALSE,
            "invalid_exact_sui_payload_transaction_signature_verification_failed",
            errorMessage, Undefined)
    ELSE VerifyResponse(FALSE, "transaction_simulation_failed", errorMessage, Undefined)

\* Variant of CheckAmount: an exact payment is rejected (<= where the code has <).
CheckAmount_RejectsExact(recipientChange, req, payer) ==
    IF ~BigIntParses(recipientChange.amount)
    THEN ClassifyError(BigIntSyntaxError(recipientChange.amount))
    ELSE IF ~BigIntParses(req.amount)
    THEN ClassifyError(BigIntSyntaxError(req.amount))
    ELSE IF BigInt(recipientChange.amount) <= BigInt(req.amount)
    THEN VerifyResponse(FALSE, "invalid_exact_sui_payload_amount_insufficient",
                        UndefinedText, payer)
    ELSE VerifyResponse(TRUE, Undefined, UndefinedText, payer)

\* The amount comparison (lines 165-173); BigInt may throw into the catch block.
CheckAmount(recipientChange, req, payer) ==
    IF ~BigIntParses(recipientChange.amount)
    THEN ClassifyError(BigIntSyntaxError(recipientChange.amount))
    ELSE IF ~BigIntParses(req.amount)
    THEN ClassifyError(BigIntSyntaxError(req.amount))
    ELSE IF BigInt(recipientChange.amount) < BigInt(req.amount)
    THEN VerifyResponse(FALSE, "invalid_exact_sui_payload_amount_insufficient",
                        UndefinedText, payer)
    ELSE VerifyResponse(TRUE, Undefined, UndefinedText, payer)

\* Step 4 (lines 133-173): the balance-change match and the amount check.
CheckBalanceChanges(dryRunResult, req, payer) ==
    LET balanceChanges ==
            IF dryRunResult.hasBalanceChanges THEN dryRunResult.balanceChanges ELSE <<>>
        recipientChange ==
            FindIndex([i \in DOMAIN balanceChanges |->
                          IsRecipientChange(balanceChanges[i], req)])
        anyRecipientChange ==
            FindIndex([i \in DOMAIN balanceChanges |->
                          IsAnyRecipientChange(balanceChanges[i], req)])
    IN  IF recipientChange = 0
        THEN IF anyRecipientChange # 0
             THEN VerifyResponse(FALSE, "invalid_exact_sui_payload_asset_mismatch",
                                 UndefinedText, payer)
             ELSE VerifyResponse(FALSE, "invalid_exact_sui_payload_recipient_mismatch",
                                 UndefinedText, payer)
        ELSE CheckAmount(balanceChanges[recipientChange], req, payer)

\* Variant of AfterJoin: the balance changes are examined before the status.
AfterJoin_BalanceFirst(recoveredPayer, dryRunResult, req) ==
    LET payer == recoveredPayer
        onBalances == CheckBalanceChanges(dryRunResult, req, payer)
    IN  IF ~onBalances.isValid
        THEN onBalances
        ELSE IF dryRunResult.status # "success"
        THEN VerifyResponse(FALSE, "invalid_exact_sui_payload_transaction_dry_run_failed",
                IF TruthyText(dryRunResult.error) THEN dryRunResult.error
                ELSE <<"Simulation failed">>,
                payer)
        ELSE onBalances

\* Variant of AfterJoin: the recovered signer is not kept as payer.
AfterJoin_DropsPayer(recoveredPayer, dryRunResult, req) ==
    LET payer == Undefined IN
    IF dryRunResult.status # "success"
    THEN VerifyResponse(FALSE, "invalid_exact_sui_payload_transaction_dry_run_failed",
            IF TruthyText(dryRunResult.error) THEN dryRunResult.error
            ELSE <<"Simulation failed">>,
            payer)
    ELSE CheckBalanceChanges(dryRunResult, req, payer)

\* Variant of AfterJoin: a payment whose timeout is under a minute is refused.
AfterJoin_EnforcesTimeout(recoveredPayer, dryRunResult, req) ==
    LET payer == recoveredPayer IN
    IF req.maxTimeoutSeconds < 60
    THEN VerifyResponse(FALSE, "invalid_exact_sui_payload_transaction_dry_run_failed",
            <<"Payment expired">>, payer)
    ELSE IF dryRunResult.status # "success"
    THEN VerifyResponse(FALSE, "invalid_exact_sui_payload_transaction_dry_run_failed",
            IF TruthyText(dryRunResult.error) THEN dryRunResult.error
            ELSE <<"Simulation failed">>,
            payer)
    ELSE CheckBalanceChanges(dryRunResult, req, payer)

\* What verify does once Promise.all has fulfilled (lines 121-173, 198-202).
AfterJoin(recoveredPayer, dryRunResult, req) ==
    LET payer == recoveredPayer IN
    IF dryRunResult.status # "success"
    THEN VerifyResponse(FALSE, "invalid_exact_sui_payload_transaction_dry_run_failed",
            IF TruthyText(dryRunResult.error) THEN dryRunResult.error
            ELSE <<"Simulation failed">>,
            payer)
    ELSE CheckBalanceChanges(dryRunResult, req, payer)

\* -------------------------------------------------------- input domains

\* The calls in flight on one facilitator instance.
CallIds == {"call1"}

MOCK_PAYER == "0xbbb"
MOCK_PAYTO == "0xccc"

Schemes == {"exact", "upto"}
Networks == {SUI_MAINNET_CAIP2, SUI_TESTNET_CAIP2}

\* payload.payload: absent, or an ExactSuiPayload whose fields may be missing or empty.
PayloadBodies ==
    {[defined |-> FALSE, transaction |-> Undefined, signature |-> Undefined]}
    \cup [defined : {TRUE},
          transaction : {Undefined, "", "mock-transaction-base64"},
          signature : {Undefined, "", "mock-signature-base64"}]

Payloads ==
    [accepted : [scheme : Schemes, network : Networks], payload : PayloadBodies]

\* Amount strings: decimal integers, and "x", which is no integer.
RequiredAmounts == {<<"1">>, <<"2">>, <<"3">>, <<"x">>}
ChangeAmounts == {<<"-", "2">>, <<"2">>}

RequiredAssets == {SUI_COIN_TYPE, USDC_MAINNET}
ChangeCoinTypes == {SUI_COIN_TYPE_PADDED, USDC_MAINNET}

\* payTo is whatever string the resource server sent; nothing validates it.
PayTos == {MOCK_PAYTO, ""}

Requirements ==
    [scheme : Schemes, network : Networks, asset : RequiredAssets,
     amount : RequiredAmounts, payTo : PayTos, maxTimeoutSeconds : {3600}]

Owners ==
    {AddressOwner(MOCK_PAYTO), AddressOwner(""), ObjectOwner(MOCK_PAYTO),
     SharedOwner, ImmutableOwner}

AddressOwners == {AddressOwner(MOCK_PAYTO), AddressOwner("")}

\* The balance changes a simulation reports: every address owner with every
\* coin type and amount, every other kind of owner receiving 2 of either
\* coin, and one entry whose amount is no integer.
BalanceChanges ==
    [owner : AddressOwners, coinType : ChangeCoinTypes, amount : ChangeAmounts]
    \cup [owner : Owners \ AddressOwners, coinType : ChangeCoinTypes, amount : {<<"2">>}]
    \cup {[owner |-> AddressOwner(MOCK_PAYTO), coinType |-> USDC_MAINNET, amount |-> <<"x">>]}

\* All lists of at most n balance changes.
RECURSIVE ListsUpTo(_)
ListsUpTo(n) ==
    IF n = 0 THEN {<<>>}
    ELSE LET shorter == ListsUpTo(n - 1)
         IN  shorter \cup {Append(l, bc) : l \in {k \in shorter : Len(k) = n - 1},
                                           bc \in BalanceChanges}

\* A list that pays 2 of each coin to MOCK_PAYTO (used with failed simulations).
PayingChanges ==
    <<[owner |-> AddressOwner(MOCK_PAYTO), coinType |-> USDC_MAINNET, amount |-> <<"2">>],
      [owner |-> AddressOwner(MOCK_PAYTO), coinType |-> SUI_COIN_TYPE_PADDED, amount |-> <<"2">>]>>

\* What simulateTransaction can resolve to.
DryRunResults ==
    {DryRun("success", UndefinedText, TRUE, l) : l \in ListsUpTo(MaxChanges)}
    \cup {DryRun("success", UndefinedText, FALSE, <<>>)}
    \cup {DryRun(st, err, TRUE, l) :
            st \in {"failure", Undefined},
            err \in {UndefinedText, EmptyText, <<"InsufficientCoinBalance">>},
            l \in {<<>>, PayingChanges}}

\* What verifySignature can reject with: an invalid signature, a failed
\* verification, an unsupported signature algorithm, undecodable bytes.
SignatureErrors ==
    {ThrownValue(TRUE, <<"Invalid signature">>),
     ThrownValue(TRUE, <<"Signature verification failed", ": bad public key">>),
     ThrownValue(TRUE, <<"Unsupported signature scheme">>),
     ThrownValue(TRUE, <<"Invalid base64 string">>)}

\* What a call to the chain node (simulate, execute, wait) can reject with: a
\* transport error, an RPC fault whose text quotes the node, a thrown
\* non-Error value.
GatewayErrors ==
    {ThrownValue(TRUE, <<"Network error">>),
     ThrownValue(TRUE, <<"RPC error: ", "Invalid signature", " in request header">>),
     ThrownValue(FALSE, <<"timeout">>)}

Signers == {MOCK_PAYER, "0xeee"}
Digests == {"mock-digest-123"}

\* ------------------------------------------------------------------ state

VARIABLES
    op,            \* per call: "none", "verify" or "settle" (the method the host called)
    payload,       \* per call: the PaymentPayload argument
    requirements,  \* per call: the PaymentRequirements argument
    pc,            \* per call: where the call stands
    sigP,          \* per call: the promise of signer.verifySignature
    simP,          \* per call: the promise of signer.simulateTransaction
    allP,          \* per call: the promise of Promise.all([sigP, simP])
    verification,  \* per call: settle's local `verification`
    digest,        \* per call: settle's local `digest`
    result,        \* per call: the value the call returned
    log,           \* per call: the calls made and returned, in order
    moneyParsers,  \* server scheme: the field `moneyParsers`, in registration order
    parsed,        \* server scheme: the last call of parsePrice and how it ended
    enhanced,      \* server scheme: the last call of enhancePaymentRequirements
    gasStationUrl, \* facilitator: the field `gasStationUrl` given at construction
    lastExtra,     \* facilitator: the last call of getExtra and what it returned
    config,        \* default signer: the `config` argument of toFacilitatorSuiSigner
    clientCache,   \* default signer: the map `clientCache`, network -> client
    created,       \* default signer: the clients constructed so far, in order
    signerCall     \* default signer: the last call made on the signer

\* The state of the server scheme, an object apart from the facilitator.
serverVars == <<moneyParsers, parsed, enhanced>>

\* The facilitator's sponsorship setting and its getExtra method.
extraVars == <<gasStationUrl, lastExtra>>

\* The state of the default signer, an object the facilitator is given.
signerVars == <<config, clientCache, created, signerCall>>

\* What verify and settle never touch.
hostVars == <<serverVars, extraVars, signerVars>>

vars == <<op, payload, requirements, pc, sigP, simP, allP, verification, digest, result, log,
          moneyParsers, parsed, enhanced, gasStationUrl, lastExtra,
          config, clientCache, created, signerCall>>

\* A promise: not created, pending, fulfilled with a value or rejected with a reason.
NoPromise(noValue) == [state |-> "none", value |-> noValue, reason |-> NoError]
Pending(noValue) == [state |-> "pending", value |-> noValue, reason |-> NoError]
Fulfilled(v) == [state |-> "fulfilled", value |-> v, reason |-> NoError]
Rejected(noValue, e) == [state |-> "rejected", value |-> noValue, reason |-> e]

\* One entry of the log: a function name and up to three arguments or results.
Event(fn, a1, a2, a3) == [fn |-> fn, a1 |-> a1, a2 |-> a2, a3 |-> a3]

NoPayload ==
    [accepted |-> [scheme |-> Undefined, network |-> Undefined],
     payload |-> [defined |-> FALSE, transaction |-> Undefined, signature |-> Undefined]]

NoRequirements ==
    [scheme |-> Undefined, network |-> Undefined, asset |-> SUI_COIN_TYPE,
     amount |-> <<>>, payTo |-> Undefined, maxTimeoutSeconds |-> 0]

\* ------------------------------------------------------ server scheme

SUI_DEVNET_CAIP2 == "sui:devnet"

\* Circle USDC on testnet, "0xa1e...::usdc::USDC" (address shortened to the model width).
USDC_TESTNET == [address |-> <<"a", "1", "e">>, module |-> "usdc", name |-> "USDC"]

USDC_DECIMALS == 6

\* One whole token in units of 10^-6.
Million == 1000000

\* A JavaScript number: NaN, or a decimal amount kept in units of 10^-6.
Decimal(micro) == [nan |-> FALSE, micro |-> micro]
NaN == [nan |-> TRUE, micro |-> 0]

\* What a call gives back: a value, or a thrown error.
Returns(value) == [threw |-> FALSE, error |-> NoError, value |-> value]
Throws(text, noValue) == [threw |-> TRUE, error |-> ThrownValue(TRUE, text), value |-> noValue]

\* AssetAmount: {amount, asset, extra?}. `extra` is absent or a map.
AssetAmount(amount, asset, extra) == [amount |-> amount, asset |-> asset, extra |-> extra]

\* An `extra` that is absent, and one with the given fields.
NoExtra == [defined |-> FALSE, fields |-> <<>>]
Extra(fields) == [defined |-> TRUE, fields |-> fields]

\* price.asset when the field is absent, and when it is the empty string.
MissingAsset == [address |-> <<>>, module |-> Undefined, name |-> Undefined]
EmptyAsset == [address |-> <<>>, module |-> "", name |-> ""]

\* JavaScript truthiness of price.asset.
TruthyAsset(asset) == asset \notin {MissingAsset, EmptyAsset}

\* Placeholder where no AssetAmount came back.
NoAssetAmount == AssetAmount(UndefinedText, MissingAsset, NoExtra)

\* Price: Money (a string or a number) or an AssetAmount.
MoneyString(text) == [type |-> "string", text |-> text]
MoneyNumber(number) == [type |-> "number", number |-> number]
PriceObject(assetAmount) == [type |-> "object", assetAmount |-> assetAmount]

IsWhitespace(ch) == ch = " "

\* String.prototype.trim, one end at a time.
RECURSIVE TrimStart(_)
TrimStart(t) ==
    IF t # <<>> /\ IsWhitespace(t[1]) THEN TrimStart(Tail(t)) ELSE t

RECURSIVE TrimEnd(_)
TrimEnd(t) ==
    IF t # <<>> /\ IsWhitespace(t[Len(t)]) THEN TrimEnd(SubSeq(t, 1, Len(t) - 1)) ELSE t

\* String.prototype.toUpperCase on one letter of a currency suffix.
ToUpperCase(ch) ==
    CASE ch = "u" -> "U"
      [] ch = "s" -> "S"
      [] ch = "d" -> "D"
      [] ch = "c" -> "C"
      [] ch = "i" -> "I"
      [] OTHER -> ch

\* The text ends with the word, whatever the case of its letters.
EndsWithIgnoringCase(t, word) ==
    /\ Len(t) >= Len(word)
    /\ \A i \in DOMAIN word : ToUpperCase(t[Len(t) - Len(word) + i]) = word[i]

DropLast(t, n) == SubSeq(t, 1, Len(t) - n)

\* money.replace(/^\$/, "") (line 122).
StripDollar(t) == IF t # <<>> /\ t[1] = "$" THEN Tail(t) ELSE t

\* .replace(/\s*(USDC|USD|SUI)\s*$/i, "") (line 123).
StripCurrency(t) ==
    LET e == TrimEnd(t) IN
    IF EndsWithIgnoringCase(e, <<"U", "S", "D", "C">>) THEN TrimEnd(DropLast(e, 4))
    ELSE IF EndsWithIgnoringCase(e, <<"U", "S", "D">>) THEN TrimEnd(DropLast(e, 3))
    ELSE IF EndsWithIgnoringCase(e, <<"S", "U", "I">>) THEN TrimEnd(DropLast(e, 3))
    ELSE t

\* The longest run of decimal digits the text starts with.
RECURSIVE DigitsPrefix(_)
DigitsPrefix(t) ==
    IF t = <<>> \/ ~IsDigit(t[1]) THEN <<>>
    ELSE <<t[1]>> \o DigitsPrefix(Tail(t))

\* String.prototype.padEnd with "0".
RECURSIVE PadEnd(_, _)
PadEnd(digits, width) ==
    IF Len(digits) >= width THEN digits ELSE PadEnd(digits \o <<"0">>, width)

\* parseFloat: the number the text starts with (sign, digits, fraction), NaN
\* if it starts with none. Fractions are kept to six digits.
ParseFloat(text) ==
    LET t == TrimStart(text)
        signed == t # <<>> /\ t[1] \in {"-", "+"}
        body == IF signed THEN Tail(t) ELSE t
        intPart == DigitsPrefix(body)
        rest == SubSeq(body, Len(intPart) + 1, Len(body))
        decPart == IF rest # <<>> /\ rest[1] = "." THEN DigitsPrefix(Tail(rest)) ELSE <<>>
        micro == DigitsValue(intPart) * Million
                   + DigitsValue(SubSeq(PadEnd(decPart, USDC_DECIMALS), 1, USDC_DECIMALS))
    IN  IF intPart = <<>> /\ decPart = <<>> THEN NaN
        ELSE Decimal(IF signed /\ t[1] = "-" THEN 0 - micro ELSE micro)

\* The decimal digits of a natural number.
RECURSIVE IntToDigits(_)
IntToDigits(n) ==
    IF n < 10 THEN <<CHOOSE ch \in {"0", "1", "2", "3", "4", "5", "6", "7", "8", "9"} :
                        DigitValue(ch) = n>>
    ELSE IntToDigits(n \div 10) \o IntToDigits(n % 10)

RECURSIVE StripLeadingZeros(_)
StripLeadingZeros(digits) ==
    IF digits # <<>> /\ digits[1] = "0" THEN StripLeadingZeros(Tail(digits)) ELSE digits

RECURSIVE StripTrailingZeros(_)
StripTrailingZeros(digits) ==
    IF digits # <<>> /\ digits[Len(digits)] = "0"
    THEN StripTrailingZeros(DropLast(digits, 1)) ELSE digits

Abs(n) == IF n < 0 THEN 0 - n ELSE n

\* Number.prototype.toFixed(6), split at the point (line 85 of utils.ts).
ToFixed(micro) ==
    [intPart |-> IntToDigits(micro \div Million),
     decPart |-> PadStart(IntToDigits(micro % Million), USDC_DECIMALS)]

\* Number.prototype.toString on an amount.
NumberToString(amount) ==
    IF amount.nan THEN <<"N", "a", "N">>
    ELSE LET fixed == ToFixed(Abs(amount.micro))
             decPart == StripTrailingZeros(fixed.decPart)
         IN  (IF amount.micro < 0 THEN <<"-">> ELSE <<>>)
               \o fixed.intPart
               \o (IF decPart = <<>> THEN <<>> ELSE <<".">> \o decPart)

\* parseMoneyToDecimal (lines 115-132): a number as it is, a string without
\* its "$", its currency suffix and its blanks, read by parseFloat.
parseMoneyToDecimal(money) ==
    IF money.type = "number" THEN Returns(money.number)
    ELSE LET cleanMoney == TrimEnd(TrimStart(StripCurrency(StripDollar(money.text))))
             amount == ParseFloat(cleanMoney)
         IN  IF amount.nan
             THEN Throws(<<"Invalid money format: ">> \o money.text, NaN)
             ELSE Returns(amount)

\* convertToTokenAmount (utils.ts lines 74-89) with six decimals.
convertToTokenAmount(decimalAmount) ==
    LET trimmed == TrimEnd(TrimStart(decimalAmount))
        amount == ParseFloat(trimmed)
        fixed == ToFixed(amount.micro)
        tokenAmount == StripLeadingZeros(fixed.intPart \o fixed.decPart)
    IN  IF trimmed # <<>> /\ trimmed[1] = "-"
        THEN Throws(<<"Negative amounts not allowed: ">> \o decimalAmount, UndefinedText)
        ELSE IF amount.nan
        THEN Throws(<<"Invalid amount: ">> \o decimalAmount, UndefinedText)
        ELSE Returns(IF tokenAmount = <<>> THEN <<"0">> ELSE tokenAmount)

\* getUsdcCoinType (utils.ts lines 43-54).
getUsdcCoinType(network) ==
    CASE network = SUI_MAINNET_CAIP2 -> Returns(USDC_MAINNET)
      [] network = SUI_TESTNET_CAIP2 -> Returns(USDC_TESTNET)
      [] network = SUI_DEVNET_CAIP2 -> Returns(USDC_TESTNET)
      [] OTHER -> Throws(<<"No USDC coin type configured for network: ", network>>,
                         MissingAsset)

\* defaultMoneyConversion (lines 141-148).
defaultMoneyConversion(amount, network) ==
    LET tokenAmount == convertToTokenAmount(NumberToString(amount))
        asset == getUsdcCoinType(network)
    IN  IF tokenAmount.threw THEN Throws(tokenAmount.error.message, NoAssetAmount)
        ELSE IF asset.threw THEN Throws(asset.error.message, NoAssetAmount)
        ELSE Returns(AssetAmount(tokenAmount.value, asset.value, Extra(<<>>)))

\* A custom token a resource server may price in.
CUSTOM_COIN_TYPE == [address |-> <<"a", "b", "c">>, module |-> "token", name |-> "TOKEN"]

\* The money parsers a resource server registers.
MoneyParsers == {"largeInSui", "testnetToken", "declines"}

\* What a money parser gives back: null, or an AssetAmount.
Null == [isNull |-> TRUE, value |-> NoAssetAmount]
NonNull(assetAmount) == [isNull |-> FALSE, value |-> assetAmount]

\* parser(amount, network): "largeInSui" prices amounts over 100 in SUI,
\* "testnetToken" prices everything on testnet in a custom token, "declines"
\* always returns null.
ApplyParser(parser, amount, network) ==
    CASE parser = "largeInSui" ->
            IF ~amount.nan /\ amount.micro > 100 * Million
            THEN NonNull(AssetAmount(IntToDigits(amount.micro) \o <<"0", "0", "0">>,
                                     SUI_COIN_TYPE, Extra(<<>>)))
            ELSE Null
      [] parser = "testnetToken" ->
            IF network = SUI_TESTNET_CAIP2
            THEN NonNull(AssetAmount(<<"1">>, CUSTOM_COIN_TYPE, Extra(<<>>)))
            ELSE Null
      [] OTHER -> Null

\* Variant of FirstNonNull: the last parser that returns non-null wins.
FirstNonNull_LastWins(parsers, amount, network) ==
    LET hits == {i \in DOMAIN parsers : ~ApplyParser(parsers[i], amount, network).isNull}
    IN  IF hits = {} THEN 0 ELSE CHOOSE i \in hits : \A j \in hits : j <= i

\* The loop over the parsers (lines 62-67): the index of the parser whose
\* result is returned, 0 when every parser returned null.
FirstNonNull(parsers, amount, network) ==
    FindIndex([i \in DOMAIN parsers |-> ~ApplyParser(parsers[i], amount, network).isNull])

\* One call of parsePrice and how it ended: the parsers consulted in order,
\* whether defaultMoneyConversion was called, and the value or the error.
PriceCall(price, network, parsers, consulted, usedDefault, outcome) ==
    [price |-> price, network |-> network, parsers |-> parsers,
     consulted |-> consulted, usedDefault |-> usedDefault, outcome |-> outcome]

\* The branch of parsePrice for an AssetAmount (lines 47-56).
ParseAssetAmount(price, network) ==
    IF ~TruthyAsset(price.assetAmount.asset)
    THEN Throws(<<"Asset address must be specified for AssetAmount on network ", network>>,
                NoAssetAmount)
    ELSE Returns(AssetAmount(price.assetAmount.amount, price.assetAmount.asset,
                             IF price.assetAmount.extra.defined
                             THEN price.assetAmount.extra ELSE Extra(<<>>)))

\* The branch of parsePrice for Money (lines 59-70).
ParseMoney(price, network, parsers) ==
    LET amount == parseMoneyToDecimal(price)
        winner == FirstNonNull(parsers, amount.value, network)
    IN  IF amount.threw
        THEN PriceCall(price, network, parsers, <<>>, FALSE,
                       Throws(amount.error.message, NoAssetAmount))
        ELSE IF winner # 0
        THEN PriceCall(price, network, parsers, SubSeq(parsers, 1, winner), FALSE,
                       Returns(ApplyParser(parsers[winner], amount.value, network).value))
        ELSE PriceCall(price, network, parsers, parsers, TRUE,
                       defaultMoneyConversion(amount.value, network))

\* Spread of two `extra` maps into one (lines 101-104): the later one wins.
SpreadExtras(first, second) ==
    LET a == IF first.defined THEN first.fields ELSE <<>>
        b == IF second.defined THEN second.fields ELSE <<>>
    IN  Extra([k \in DOMAIN a \cup DOMAIN b |-> IF k \in DOMAIN b THEN b[k] ELSE a[k]])

\* Variant of EnhancedRequirements: the requirements' own extra wins.
EnhancedRequirements_OwnExtraWins(paymentRequirements, supportedKind) ==
    [paymentRequirements EXCEPT
        !.extra = SpreadExtras(supportedKind.extra, paymentRequirements.extra)]

\* The value of enhancePaymentRequirements (lines 99-105).
EnhancedRequirements(paymentRequirements, supportedKind) ==
    [paymentRequirements EXCEPT
        !.extra = SpreadExtras(paymentRequirements.extra, supportedKind.extra)]

\* ---------------------------------------- server scheme: input domains

\* How many parsers a resource server registers.
MaxParsers == 2

ServerNetworks == {SUI_MAINNET_CAIP2, SUI_TESTNET_CAIP2, "sui:localnet"}

\* "$0.10", "0.10 USDC", "150 sui", "not-a-price!", 0.1, 150 and -1.
Moneys ==
    {MoneyString(<<"$", "0", ".", "1", "0">>),
     MoneyString(<<"0", ".", "1", "0", " ", "U", "S", "D", "C">>),
     MoneyString(<<"1", "5", "0", " ", "s", "u", "i">>),
     MoneyString(<<"n", "o", "t", "-", "a", "-", "p", "r", "i", "c", "e", "!">>),
     MoneyNumber(Decimal(100000)),
     MoneyNumber(Decimal(150 * Million)),
     MoneyNumber(Decimal(0 - Million))}

\* {amount: "123456", asset: SUI_COIN_TYPE, extra: {}}, the same without
\* extra, without asset, and with an empty asset.
AssetAmounts ==
    {PriceObject(AssetAmount(<<"1", "2", "3", "4", "5", "6">>, SUI_COIN_TYPE, Extra(<<>>))),
     PriceObject(AssetAmount(<<"1", "2", "3", "4", "5", "6">>, SUI_COIN_TYPE, NoExtra)),
     PriceObject(AssetAmount(<<"1", "2", "3", "4", "5", "6">>, MissingAsset, NoExtra)),
     PriceObject(AssetAmount(<<"1", "2", "3", "4", "5", "6">>, EmptyAsset, Extra(<<>>)))}

Prices == Moneys \cup AssetAmounts

\* The `extra` maps of requirements and of the facilitator's supported kind.
Extras ==
    {NoExtra,
     Extra(<<>>),
     Extra([gasStation |-> "https://gas.example.com"]),
     Extra([custom |-> "value", gasStation |-> "https://old.example.com"])}

\* createMockRequirements with an `extra`.
ServerRequirements ==
    [scheme : {"exact"}, network : {SUI_MAINNET_CAIP2}, asset : {USDC_MAINNET},
     amount : {<<"1", "0", "0", "0", "0", "0">>}, payTo : {MOCK_PAYTO},
     maxTimeoutSeconds : {3600}, extra : Extras]

SupportedKinds ==
    [x402Version : {2}, scheme : {"exact"}, network : {SUI_MAINNET_CAIP2}, extra : Extras]

\* Before the first call of parsePrice, and of enhancePaymentRequirements.
NoPriceCall ==
    PriceCall(MoneyNumber(NaN), Undefined, <<>>, <<>>, FALSE, Throws(UndefinedText, NoAssetAmount))
NoEnhancement == [called |-> FALSE]

\* `private moneyParsers: MoneyParser[] = []` (line 18).
InitServer ==
    /\ moneyParsers = <<>>
    /\ parsed = [called |-> FALSE, call |-> NoPriceCall]
    /\ enhanced = NoEnhancement

\* ------------------------------------------------ server scheme: steps

\* registerMoneyParser (lines 30-33).
registerMoneyParser ==
    \E parser \in MoneyParsers :
        /\ Len(moneyParsers) < MaxParsers
        /\ moneyParsers' = Append(moneyParsers, parser)
        /\ UNCHANGED <<parsed, enhanced>>

\* parsePrice (lines 45-71).
parsePrice ==
    \E price \in Prices, network \in ServerNetworks :
        /\ parsed' = [called |-> TRUE,
                      call |-> IF price.type = "object"
                               THEN PriceCall(price, network, moneyParsers, <<>>, FALSE,
                                              ParseAssetAmount(price, network))
                               ELSE ParseMoney(price, network, moneyParsers)]
        /\ UNCHANGED <<moneyParsers, enhanced>>

\* enhancePaymentRequirements (lines 86-106).
enhancePaymentRequirements ==
    \E paymentRequirements \in ServerRequirements, supportedKind \in SupportedKinds :
        /\ enhanced' = [called |-> TRUE,
                        paymentRequirements |-> paymentRequirements,
                        supportedKind |-> supportedKind,
                        returned |-> EnhancedRequirements(paymentRequirements, supportedKind)]
        /\ UNCHANGED <<moneyParsers, parsed>>

\* The facilitator's calls leave the server scheme alone, and the other way round.
facilitatorVars ==
    <<op, payload, requirements, pc, sigP, simP, allP, verification, digest, result, log>>

ServerNext ==
    \/ registerMoneyParser /\ UNCHANGED <<facilitatorVars, extraVars, signerVars>>
    \/ parsePrice /\ UNCHANGED <<facilitatorVars, extraVars, signerVars>>
    \/ enhancePaymentRequirements /\ UNCHANGED <<facilitatorVars, extraVars, signerVars>>

\* ------------------------------------------------ facilitator: getExtra

\* The gas station of the tests.
GAS_STATION_URL == "https://gas.example.com"

\* The constructor's gasStationUrl argument: absent, empty, or a URL.
GasStationUrls == {Undefined, "", GAS_STATION_URL}

\* What getExtra returns: the map {gasStation: url}, or undefined.
GasStationExtra(url) == [defined |-> TRUE, gasStation |-> url]
NoGasStationExtra == [defined |-> FALSE, gasStation |-> Undefined]

\* Variant of ExtraFor: sponsorship is advertised on mainnet only.
ExtraFor_MainnetOnly(network) ==
    IF Truthy(gasStationUrl) /\ network = SUI_MAINNET_CAIP2
    THEN GasStationExtra(gasStationUrl)
    ELSE NoGasStationExtra

\* The body of getExtra (lines 39-44); its argument is not read.
ExtraFor(network) ==
    IF Truthy(gasStationUrl) THEN GasStationExtra(gasStationUrl) ELSE NoGasStationExtra

\* The network arguments getExtra is called with.
ExtraNetworks == {SUI_MAINNET_CAIP2, SUI_TESTNET_CAIP2, "sui:localnet", ""}

\* Placeholder where getExtra was not called yet.
NoExtraCall == [called |-> FALSE, network |-> Undefined, returned |-> NoGasStationExtra]

\* getExtra(network), called by the host.
getExtra ==
    /\ \E network \in ExtraNetworks :
          lastExtra' = [called |-> TRUE, network |-> network, returned |-> ExtraFor(network)]
    /\ UNCHANGED <<facilitatorVars, serverVars, signerVars, gasStationUrl>>

\* A facilitator constructed without a gas station, as in the tests of
\* verify and settle; getExtra not called yet.
InitExtra ==
    /\ gasStationUrl = Undefined
    /\ lastExtra = NoExtraCall

\* A facilitator constructed with any of the gasStationUrl arguments.
InitAnyGasStation ==
    /\ gasStationUrl \in GasStationUrls
    /\ lastExtra = NoExtraCall

\* ---------------------------------------------------- default signer

\* A chain client: which construction it came from (its identity) and the URL
\* it was constructed with.
SuiClient(id, url) == [defined |-> TRUE, id |-> id, url |-> url]
NoClient == [defined |-> FALSE, id |-> 0, url |-> Undefined]

\* The network identifiers the signer is called with: the three networks
\* createSuiClient knows, and one it does not.
SignerNetworks == {SUI_MAINNET_CAIP2, SUI_TESTNET_CAIP2, SUI_DEVNET_CAIP2, "sui:localnet"}

\* No config argument: both fields read as undefined.
NoConfig == [rpcUrl |-> Undefined, rpcUrls |-> [n \in SignerNetworks |-> Undefined]]

\* Placeholder where no call was made on the signer yet.
NoSignerCall ==
    [fn |-> Undefined, network |-> Undefined, client |-> NoClient, threw |-> FALSE]

\* The config arguments: none, one URL for every network, a URL for
\* "sui:localnet" alone, and an empty URL for testnet beside the general one.
CUSTOM_RPC_URL == "https://rpc.example.com"
LOCAL_RPC_URL == "http://127.0.0.1:9000"
SignerConfigs ==
    {NoConfig,
     [rpcUrl |-> CUSTOM_RPC_URL, rpcUrls |-> [n \in SignerNetworks |-> Undefined]],
     [rpcUrl |-> Undefined,
      rpcUrls |-> [n \in SignerNetworks |->
                      IF n = "sui:localnet" THEN LOCAL_RPC_URL ELSE Undefined]],
     [rpcUrl |-> CUSTOM_RPC_URL,
      rpcUrls |-> [n \in SignerNetworks |->
                      IF n = SUI_TESTNET_CAIP2 THEN "" ELSE Undefined]]}

\* getFullnodeUrl(name) of the Sui SDK.
FullnodeUrl(name) == "https://fullnode." \o name \o ".sui.io:443"

\* createSuiClient (utils.ts lines 20-35): the client, or the error thrown.
\* id is the identity the constructed object gets.
createSuiClient(network, customRpcUrl, id) ==
    IF Truthy(customRpcUrl) THEN Returns(SuiClient(id, customRpcUrl))
    ELSE IF network = SUI_MAINNET_CAIP2 THEN Returns(SuiClient(id, FullnodeUrl("mainnet")))
    ELSE IF network = SUI_TESTNET_CAIP2 THEN Returns(SuiClient(id, FullnodeUrl("testnet")))
    ELSE IF network = SUI_DEVNET_CAIP2 THEN Returns(SuiClient(id, FullnodeUrl("devnet")))
    ELSE Throws(<<"Unsupported Sui network: ", network>>, NoClient)

\* `config?.rpcUrls?.[network] ?? config?.rpcUrl` (line 142): ?? passes on
\* every value but undefined, the empty string included.
RpcUrlFor(network) ==
    IF config.rpcUrls[network] # Undefined THEN config.rpcUrls[network] ELSE config.rpcUrl

\* What a run of getClient leaves behind: whether it threw, the client it
\* returned, the cache and the list of constructed clients.
ClientOutcome(threw, client, cache, made) ==
    [threw |-> threw, client |-> client, clientCache |-> cache, created |-> made]

\* Variant of getClient: the constructed client is not stored.
getClient_NoCache(network) ==
    LET made == createSuiClient(network, RpcUrlFor(network), Len(created) + 1) IN
    IF made.threw
    THEN ClientOutcome(TRUE, NoClient, clientCache, created)
    ELSE ClientOutcome(FALSE, made.value, clientCache,
                       Append(created, [network |-> network, client |-> made.value]))

\* getClient (index.ts lines 138-146). It runs without an await, so no other
\* call comes between the lookup and the set.
getClient(network) ==
    LET cached == clientCache[network] IN
    IF cached.defined
    THEN ClientOutcome(FALSE, cached, clientCache, created)
    ELSE LET made == createSuiClient(network, RpcUrlFor(network), Len(created) + 1) IN
         IF made.threw
         THEN ClientOutcome(TRUE, NoClient, clientCache, created)
         ELSE ClientOutcome(FALSE, made.value,
                            [clientCache EXCEPT ![network] = made.value],
                            Append(created, [network |-> network, client |-> made.value]))

\* The three methods that begin with getClient(network): the client they go
\* on to call, or the rejection of the promise they return.
CallsWithClient(fn) ==
    \E network \in SignerNetworks :
        LET got == getClient(network) IN
        /\ clientCache' = got.clientCache
        /\ created' = got.created
        /\ signerCall' = [fn |-> fn, network |-> network, client |-> got.client,
                          threw |-> got.threw]
        /\ UNCHANGED <<facilitatorVars, serverVars, extraVars, config>>

\* simulateTransaction (lines 160-168), executeTransaction (lines 170-192) and
\* waitForTransaction (lines 194-200) of the default signer.
signerSimulateTransaction == CallsWithClient("simulateTransaction")
signerExecuteTransaction == CallsWithClient("executeTransaction")
signerWaitForTransaction == CallsWithClient("waitForTransaction")

\* verifySignature (lines 154-158): it recovers the signer from the bytes or
\* throws, and has no use for a client.
signerVerifySignature ==
    /\ \E network \in SignerNetworks, threw \in BOOLEAN :
          signerCall' = [fn |-> "verifySignature", network |-> network,
                         client |-> NoClient, threw |-> threw]
    /\ UNCHANGED <<facilitatorVars, serverVars, extraVars, config, clientCache, created>>

SignerNext ==
    \/ signerVerifySignature
    \/ signerSimulateTransaction
    \/ signerExecuteTransaction
    \/ signerWaitForTransaction

\* `clientCache = new Map()` (line 136), no call made yet.
InitCache ==
    /\ clientCache = [n \in SignerNetworks |-> NoClient]
    /\ created = <<>>
    /\ signerCall = NoSignerCall

\* toFacilitatorSuiSigner() without a config.
InitSigner == config = NoConfig /\ InitCache

\* toFacilitatorSuiSigner(config) with any of the config arguments.
InitAnySigner == config \in SignerConfigs /\ InitCache

\* No call of `calls` has been made yet.
InitCalls(calls) ==
    /\ op = [c \in calls |-> "none"]
    /\ payload = [c \in calls |-> NoPayload]
    /\ requirements = [c \in calls |-> NoRequirements]
    /\ pc = [c \in calls |-> "idle"]
    /\ sigP = [c \in calls |-> NoPromise(Undefined)]
    /\ simP = [c \in calls |-> NoPromise(NoDryRun)]
    /\ allP = [c \in calls |-> NoPromise(Undefined)]
    /\ verification = [c \in calls |-> NoVerifyResponse]
    /\ digest = [c \in calls |-> Undefined]
    /\ result = [c \in calls |-> NoVerifyResponse]
    /\ log = [c \in calls |-> <<>>]

Init == InitCalls(CallIds) /\ InitServer /\ InitExtra /\ InitSigner

\* The server scheme of a resource server, beside an idle facilitator.
ServerSpec == Init /\ [][ServerNext]_vars

\* ------------------------------------------------------------- verify

\* Variant of VerifyReturns: every verification is followed by settle's
\* broadcast code, whichever method the host called.
VerifyReturns_IntoSettle(c, method, response, entryLog) ==
    /\ log' = [log EXCEPT ![c] = entryLog \o <<Event("verify.return", Undefined, Undefined, Undefined)>>]
    /\ verification' = [verification EXCEPT ![c] = response]
    /\ pc' = [pc EXCEPT ![c] = "settle_verified"]
    /\ UNCHANGED result

\* verify returns `response`: to the host when the host called verify, into
\* settle's `verification` (line 218) when settle called it. The locals of
\* verify (the resolved simulation) do not outlive the return into settle.
VerifyReturns(c, method, response, entryLog) ==
    /\ log' = [log EXCEPT ![c] = entryLog \o <<Event("verify.return", Undefined, Undefined, Undefined)>>]
    /\ IF method = "verify"
       THEN /\ result' = [result EXCEPT ![c] = response]
            /\ pc' = [pc EXCEPT ![c] = "done"]
            /\ UNCHANGED verification
       ELSE /\ verification' = [verification EXCEPT ![c] = response]
            /\ pc' = [pc EXCEPT ![c] = "settle_verified"]
            /\ UNCHANGED result

\* The synchronous part of verify up to `await Promise.all` (lines 78-119):
\* an early return, or both gateway calls launched.
VerifyBegins(c, method, pl, req) ==
    LET entryLog == log[c] \o <<Event("verify", Undefined, Undefined, Undefined)>> IN
    /\ pc[c] = "idle"
    /\ op' = [op EXCEPT ![c] = method]
    /\ payload' = [payload EXCEPT ![c] = pl]
    /\ requirements' = [requirements EXCEPT ![c] = req]
    /\ UNCHANGED <<hostVars, digest>>
    /\ IF ~PassesEarlyChecks(pl, req)
       THEN /\ VerifyReturns(c, method, EarlyResponse(pl, req), entryLog)
            /\ UNCHANGED <<sigP, simP, allP>>
       ELSE /\ sigP' = [sigP EXCEPT ![c] = Pending(Undefined)]
            /\ simP' = [simP EXCEPT ![c] = Pending(NoDryRun)]
            /\ allP' = [allP EXCEPT ![c] = Pending(Undefined)]
            /\ pc' = [pc EXCEPT ![c] = "verify_await"]
            /\ log' = [log EXCEPT ![c] = entryLog \o
                 <<Event("verifySignature", pl.payload.transaction, pl.payload.signature, req.network),
                   Event("simulateTransaction", pl.payload.transaction, req.network, Undefined)>>]
            /\ UNCHANGED <<verification, result>>

\* The host calls verify(payload, requirements).
verify(c) ==
    /\ pc[c] = "idle"
    /\ \E pl \in Payloads, req \in Requirements : VerifyBegins(c, "verify", pl, req)

\* The host calls settle(payload, requirements); settle calls verify at once (line 218).
settle(c) ==
    /\ pc[c] = "idle"
    /\ \E pl \in Payloads, req \in Requirements : VerifyBegins(c, "settle", pl, req)

\* Variant of AllAfter: the join fulfils as soon as one input is fulfilled.
AllAfter_Race(all, mine, other) ==
    IF all.state # "pending" THEN all
    ELSE IF mine.state = "rejected" THEN Rejected(Undefined, mine.reason)
    ELSE Fulfilled(Undefined)

\* Promise.all after one of its inputs settled: it rejects with the first
\* rejection and fulfils when both inputs are fulfilled.
AllAfter(all, mine, other) ==
    IF all.state # "pending" THEN all
    ELSE IF mine.state = "rejected" THEN Rejected(Undefined, mine.reason)
    ELSE IF other.state = "fulfilled" THEN Fulfilled(Undefined)
    ELSE all

\* The gateway resolves verifySignature with the recovered signer.
verifySignatureResolves(c) ==
    \E signer \in Signers :
        /\ sigP[c].state = "pending"
        /\ sigP' = [sigP EXCEPT ![c] = Fulfilled(signer)]
        /\ allP' = [allP EXCEPT ![c] = AllAfter(allP[c], Fulfilled(signer), simP[c])]
        /\ UNCHANGED <<hostVars, op, payload, requirements, pc, simP, verification, digest, result, log>>

\* The gateway rejects verifySignature.
verifySignatureRejects(c) ==
    \E e \in SignatureErrors :
        /\ sigP[c].state = "pending"
        /\ sigP' = [sigP EXCEPT ![c] = Rejected(Undefined, e)]
        /\ allP' = [allP EXCEPT ![c] = AllAfter(allP[c], Rejected(Undefined, e), simP[c])]
        /\ UNCHANGED <<hostVars, op, payload, requirements, pc, simP, verification, digest, result, log>>

\* The gateway resolves simulateTransaction. Nothing reads the resolved
\* dry-run result before verify resumes, so the result is drawn there
\* (verifyResumes), where verify destructures it.
simulateTransactionResolves(c) ==
    /\ simP[c].state = "pending"
    /\ simP' = [simP EXCEPT ![c] = Fulfilled(NoDryRun)]
    /\ allP' = [allP EXCEPT ![c] = AllAfter(allP[c], Fulfilled(NoDryRun), sigP[c])]
    /\ UNCHANGED <<hostVars, op, payload, requirements, pc, sigP, verification, digest, result, log>>

\* The gateway rejects simulateTransaction.
simulateTransactionRejects(c) ==
    \E e \in GatewayErrors :
        /\ simP[c].state = "pending"
        /\ simP' = [simP EXCEPT ![c] = Rejected(NoDryRun, e)]
        /\ allP' = [allP EXCEPT ![c] = AllAfter(allP[c], Rejected(NoDryRun, e), sigP[c])]
        /\ UNCHANGED <<hostVars, op, payload, requirements, pc, sigP, verification, digest, result, log>>

\* The value verify returns once Promise.all has settled (lines 112-202).
VerifyOutcome(all, recoveredPayer, dryRunResult, req) ==
    IF all.state = "rejected" THEN ClassifyError(all.reason)
    ELSE AfterJoin(recoveredPayer, dryRunResult, req)

\* Variant of verifyResumesWith: the recovered payer is kept in one place for
\* the whole facilitator, so a call reads the signer of whichever call has its
\* signature verified.
verifyResumesWith_SharedPayer(c, dryRunResult) ==
    LET holder == CHOOSE o \in DOMAIN sigP :
                      \/ sigP[o].state = "fulfilled"
                      \/ \A x \in DOMAIN sigP : sigP[x].state # "fulfilled" IN
    /\ pc[c] = "verify_await"
    /\ allP[c].state \in {"fulfilled", "rejected"}
    /\ VerifyReturns(c, op[c],
           VerifyOutcome(allP[c], sigP[holder].value, dryRunResult, requirements[c]), log[c])
    /\ simP' = [simP EXCEPT ![c].value =
                  IF op[c] = "verify" THEN dryRunResult ELSE NoDryRun]
    /\ UNCHANGED <<hostVars, op, payload, requirements, sigP, allP, digest>>

\* verify resumes after `await Promise.all` and runs to its return. When
\* Promise.all fulfilled, dryRunResult is what simulateTransaction resolved
\* to; it stays on record for a call of verify, and is gone with verify's
\* frame when verify returns into settle.
verifyResumesWith(c, dryRunResult) ==
    /\ pc[c] = "verify_await"
    /\ allP[c].state \in {"fulfilled", "rejected"}
    /\ VerifyReturns(c, op[c],
           VerifyOutcome(allP[c], sigP[c].value, dryRunResult, requirements[c]), log[c])
    /\ simP' = [simP EXCEPT ![c].value =
                  IF op[c] = "verify" THEN dryRunResult ELSE NoDryRun]
    /\ UNCHANGED <<hostVars, op, payload, requirements, sigP, allP, digest>>

verifyResumes(c) ==
    /\ pc[c] = "verify_await"
    /\ \E dryRunResult \in IF allP[c].state = "fulfilled" THEN DryRunResults ELSE {NoDryRun} :
          verifyResumesWith(c, dryRunResult)

\* ------------------------------------------------------------- settle

\* Variant of VerificationFailed: the generic reason instead of verify's reason.
VerificationFailed_GenericReason(pl, v) ==
    SettleResponse(FALSE, "", pl.accepted.network, "verification_failed",
        UndefinedText, v.payer)

\* The early return of settle when the verification is not valid (lines 219-227).
VerificationFailed(pl, v) ==
    SettleResponse(FALSE, "", pl.accepted.network,
        IF v.invalidReason # Undefined THEN v.invalidReason ELSE "verification_failed",
        UndefinedText, v.payer)

\* Variant of MayBroadcast: a recovered payer is taken for a valid verification.
MayBroadcast_WhenPayerKnown(v) == v.isValid \/ v.payer # Undefined

\* The guard of the broadcast (line 219): settle goes on only when this holds.
MayBroadcast(v) == v.isValid

\* Variant of settleResumes: transaction and signature change places in the
\* call of executeTransaction.
settleResumes_SwapsArguments(c) ==
    /\ pc[c] = "settle_verified"
    /\ IF ~MayBroadcast(verification[c])
       THEN /\ result' = [result EXCEPT ![c] = VerificationFailed(payload[c], verification[c])]
            /\ pc' = [pc EXCEPT ![c] = "done"]
            /\ UNCHANGED log
       ELSE /\ pc' = [pc EXCEPT ![c] = "settle_executing"]
            /\ log' = [log EXCEPT ![c] = @ \o
                 <<Event("executeTransaction", payload[c].payload.signature,
                         payload[c].payload.transaction, requirements[c].network)>>]
            /\ UNCHANGED result
    /\ UNCHANGED <<hostVars, op, payload, requirements, sigP, simP, allP, verification, digest>>

\* Variant of settleResumes: a transaction another call has already handed to
\* executeTransaction is not broadcast again.
settleResumes_Deduplicates(c) ==
    /\ pc[c] = "settle_verified"
    /\ IF \/ ~MayBroadcast(verification[c])
          \/ \E o \in DOMAIN pc \ {c} :
                /\ payload[o] = payload[c]
                /\ \E i \in DOMAIN log[o] : log[o][i].fn = "executeTransaction"
       THEN /\ result' = [result EXCEPT ![c] = VerificationFailed(payload[c], verification[c])]
            /\ pc' = [pc EXCEPT ![c] = "done"]
            /\ UNCHANGED log
       ELSE /\ pc' = [pc EXCEPT ![c] = "settle_executing"]
            /\ log' = [log EXCEPT ![c] = @ \o
                 <<Event("executeTransaction", payload[c].payload.transaction,
                         payload[c].payload.signature, requirements[c].network)>>]
            /\ UNCHANGED result
    /\ UNCHANGED <<hostVars, op, payload, requirements, sigP, simP, allP, verification, digest>>

\* settle resumes after `await this.verify` (lines 219-239): the failure
\* return, or the call of executeTransaction.
settleResumes(c) ==
    /\ pc[c] = "settle_verified"
    /\ IF ~MayBroadcast(verification[c])
       THEN /\ result' = [result EXCEPT ![c] = VerificationFailed(payload[c], verification[c])]
            /\ pc' = [pc EXCEPT ![c] = "done"]
            /\ UNCHANGED log
       ELSE /\ pc' = [pc EXCEPT ![c] = "settle_executing"]
            /\ log' = [log EXCEPT ![c] = @ \o
                 <<Event("executeTransaction", payload[c].payload.transaction,
                         payload[c].payload.signature, requirements[c].network)>>]
            /\ UNCHANGED result
    /\ UNCHANGED <<hostVars, op, payload, requirements, sigP, simP, allP, verification, digest>>

\* Variant of SettleCatch: the payer of the verification is not passed on.
SettleCatch_NoPayer(c, error) ==
    SettleResponse(FALSE, "", payload[c].accepted.network, "transaction_failed",
                   ErrorMessageOf(error), Undefined)

\* Variant of SettleCatch: the digest of a broadcast that went through is
\* reported although the settlement failed.
SettleCatch_KeepsDigest(c, error) ==
    SettleResponse(FALSE, IF digest[c] = Undefined THEN "" ELSE digest[c],
                   payload[c].accepted.network, "transaction_failed",
                   ErrorMessageOf(error), verification[c].payer)

\* Variant of SettleCatch: a broadcast that raised is reported as a
\* settlement that went through.
SettleCatch_ReportsSuccess(c, error) ==
    SettleResponse(TRUE, "", payload[c].accepted.network, Undefined,
                   UndefinedText, verification[c].payer)

\* The catch block of settle (lines 250-259).
SettleCatch(c, error) ==
    SettleResponse(FALSE, "", payload[c].accepted.network, "transaction_failed",
                   ErrorMessageOf(error), verification[c].payer)

\* Variant of executeTransactionResolves: success is reported on the digest
\* alone, without waiting for finality.
executeTransactionResolves_SkipsWait(c) ==
    \E d \in Digests :
        /\ pc[c] = "settle_executing"
        /\ digest' = [digest EXCEPT ![c] = d]
        /\ pc' = [pc EXCEPT ![c] = "done"]
        /\ result' = [result EXCEPT ![c] =
             SettleResponse(TRUE, d, payload[c].accepted.network,
                            Undefined, UndefinedText, verification[c].payer)]
        /\ log' = [log EXCEPT ![c] = @ \o
             <<Event("executeTransaction.return", d, Undefined, Undefined)>>]
        /\ UNCHANGED <<hostVars, op, payload, requirements, sigP, simP, allP, verification>>

\* settle after executeTransaction resolved with digest d (lines 235-242): it
\* keeps the digest and calls waitForTransaction. `before` is what the gateway
\* logged while it worked.
executeTransactionResolvesWith(c, d, before) ==
    /\ pc[c] = "settle_executing"
    /\ digest' = [digest EXCEPT ![c] = d]
    /\ pc' = [pc EXCEPT ![c] = "settle_waiting"]
    /\ log' = [log EXCEPT ![c] = @ \o before \o
         <<Event("executeTransaction.return", d, Undefined, Undefined),
           Event("waitForTransaction", d, requirements[c].network, Undefined)>>]
    /\ UNCHANGED <<hostVars, op, payload, requirements, sigP, simP, allP, verification, result>>

\* settle after executeTransaction rejected with e: it returns from its catch
\* block (lines 250-259).
executeTransactionRejectsWith(c, e, before) ==
    /\ pc[c] = "settle_executing"
    /\ result' = [result EXCEPT ![c] = SettleCatch(c, e)]
    /\ pc' = [pc EXCEPT ![c] = "done"]
    /\ log' = [log EXCEPT ![c] = @ \o before \o
         <<Event("executeTransaction.throw", ErrorMessageOf(e), Undefined, Undefined)>>]
    /\ UNCHANGED <<hostVars, op, payload, requirements, sigP, simP, allP, verification, digest>>

\* executeTransaction resolves with a digest; settle calls waitForTransaction (line 242).
executeTransactionResolves(c) ==
    \E d \in Digests : executeTransactionResolvesWith(c, d, <<>>)

\* executeTransaction rejects; settle returns from its catch block.
executeTransactionRejects(c) ==
    \E e \in GatewayErrors : executeTransactionRejectsWith(c, e, <<>>)

\* waitForTransaction resolves; settle returns success (lines 244-249).
waitForTransactionResolves(c) ==
    /\ pc[c] = "settle_waiting"
    /\ result' = [result EXCEPT ![c] =
         SettleResponse(TRUE, digest[c], payload[c].accepted.network,
                        Undefined, UndefinedText, verification[c].payer)]
    /\ pc' = [pc EXCEPT ![c] = "done"]
    /\ log' = [log EXCEPT ![c] = @ \o
         <<Event("waitForTransaction.return", Undefined, Undefined, Undefined)>>]
    /\ UNCHANGED <<hostVars, op, payload, requirements, sigP, simP, allP, verification, digest>>

\* waitForTransaction rejects; settle returns from its catch block.
waitForTransactionRejects(c) ==
    \E e \in GatewayErrors :
        /\ pc[c] = "settle_waiting"
        /\ result' = [result EXCEPT ![c] = SettleCatch(c, e)]
        /\ pc' = [pc EXCEPT ![c] = "done"]
        /\ log' = [log EXCEPT ![c] = @ \o
             <<Event("waitForTransaction.throw", ErrorMessageOf(e), Undefined, Undefined)>>]
        /\ UNCHANGED <<hostVars, op, payload, requirements, sigP, simP, allP, verification, digest>>

\* ------------------------------------------------------- specification

Next ==
    \E c \in CallIds :
        \/ verify(c)
        \/ settle(c)
        \/ verifySignatureResolves(c)
        \/ verifySignatureRejects(c)
        \/ simulateTransactionResolves(c)
        \/ simulateTransactionRejects(c)
        \/ verifyResumes(c)
        \/ settleResumes(c)
        \/ executeTransactionResolves(c)
        \/ executeTransactionRejects(c)
        \/ waitForTransactionResolves(c)
        \/ waitForTransactionRejects(c)

Spec == Init /\ [][Next]_vars

\* ------------------------------------- two calls on one facilitator

\* Two calls in flight on one facilitator instance.
ConcurrentCallIds == {"call1", "call2"}

\* The payload of the tests, on mainnet.
ConcurrentPayloads ==
    {[accepted |-> [scheme |-> "exact", network |-> SUI_MAINNET_CAIP2],
      payload |-> [defined |-> TRUE, transaction |-> "mock-transaction-base64",
                   signature |-> "mock-signature-base64"]]}

\* The requirements of the tests, with two timeouts.
ConcurrentRequirements ==
    [scheme : {"exact"}, network : {SUI_MAINNET_CAIP2}, asset : {SUI_COIN_TYPE},
     amount : {<<"2">>}, payTo : {MOCK_PAYTO}, maxTimeoutSeconds : {30, 3600}]

\* A simulation that pays the required amount, and a failed one.
ConcurrentDryRuns ==
    {DryRun("success", UndefinedText, TRUE,
            <<[owner |-> AddressOwner(MOCK_PAYTO), coinType |-> SUI_COIN_TYPE_PADDED,
               amount |-> <<"2">>]>>),
     DryRun("failure", <<"InsufficientCoinBalance">>, TRUE, <<>>)}

\* The errors the gateway raises in the two-call runs: one per capability.
ConcurrentErrors ==
    {NoError, ThrownValue(TRUE, <<"Invalid signature">>), ThrownValue(TRUE, <<"Network error">>)}

\* The gateway's rejections stay within ConcurrentErrors.
ConcurrentGateway ==
    \A c \in ConcurrentCallIds :
        /\ sigP[c].reason \in ConcurrentErrors
        /\ simP[c].reason \in ConcurrentErrors
        /\ (op[c] = "settle" /\ pc[c] = "done") =>
             result[c].errorMessage \in {UndefinedText, <<"Network error">>}

\* The host calls verify or settle with the payload and requirements of the tests.
concurrentVerify(c) ==
    \E pl \in ConcurrentPayloads, req \in ConcurrentRequirements :
        VerifyBegins(c, "verify", pl, req)
concurrentSettle(c) ==
    \E pl \in ConcurrentPayloads, req \in ConcurrentRequirements :
        VerifyBegins(c, "settle", pl, req)

\* verify resumes on one of the two simulations.
concurrentVerifyResumes(c) ==
    \E dryRunResult \in IF allP[c].state = "fulfilled" THEN ConcurrentDryRuns ELSE {NoDryRun} :
        verifyResumesWith(c, dryRunResult)

ConcurrentNext ==
    \E c \in ConcurrentCallIds :
        \/ concurrentVerify(c)
        \/ concurrentSettle(c)
        \/ verifySignatureResolves(c)
        \/ verifySignatureRejects(c) /\ ConcurrentGateway'
        \/ simulateTransactionResolves(c)
        \/ simulateTransactionRejects(c) /\ ConcurrentGateway'
        \/ concurrentVerifyResumes(c)
        \/ settleResumes(c)
        \/ executeTransactionResolves(c)
        \/ executeTransactionRejects(c) /\ ConcurrentGateway'
        \/ waitForTransactionResolves(c)
        \/ waitForTransactionRejects(c) /\ ConcurrentGateway'

ConcurrentInit == InitCalls(ConcurrentCallIds) /\ InitServer /\ InitExtra /\ InitSigner

ConcurrentSpec == ConcurrentInit /\ [][ConcurrentNext]_vars

\* The gateway answers the call it was given: it resolves or it rejects.
verifySignatureAnswers(c) == verifySignatureResolves(c) \/ verifySignatureRejects(c)
simulateTransactionAnswers(c) == simulateTransactionResolves(c) \/ simulateTransactionRejects(c)
executeTransactionAnswers(c) == executeTransactionResolves(c) \/ executeTransactionRejects(c)
waitForTransactionAnswers(c) == waitForTransactionResolves(c) \/ waitForTransactionRejects(c)

\* The continuation of verify runs once Promise.all has settled. It is
\* enabled by that alone, whatever the simulation resolved to, and running
\* it on any result disables it: weak fairness of its run on one result is
\* weak fairness of the continuation.
verifyContinues(c) ==
    verifyResumesWith(c, IF allP[c].state = "fulfilled"
                         THEN DryRun("success", UndefinedText, FALSE, <<>>)
                         ELSE NoDryRun)

\* The program under a gateway that answers every call and an event loop
\* that runs every continuation whose promise has settled.
FairSpec ==
    /\ Spec
    /\ \A c \in CallIds :
          /\ WF_vars(verifySignatureAnswers(c))
          /\ WF_vars(simulateTransactionAnswers(c))
          /\ WF_vars(verifyContinues(c))
          /\ WF_vars(settleResumes(c))
          /\ WF_vars(executeTransactionAnswers(c))
          /\ WF_vars(waitForTransactionAnswers(c))

\* ------------------------------------------------------ reading a state

\* The number of log entries of call c for function fn.
Count(c, fn) == Cardinality({i \in DOMAIN log[c] : log[c][i].fn = fn})

\* Call c made (or saw return) fn.
Logged(c, fn) == Count(c, fn) > 0

\* Position of the first log entry for fn, 0 if none.
FirstAt(c, fn) ==
    IF Logged(c, fn)
    THEN CHOOSE i \in DOMAIN log[c] :
            log[c][i].fn = fn /\ \A j \in 1..(i - 1) : log[c][j].fn # fn
    ELSE 0

\* A call of verify that has returned to the host.
VerifyDone(c) == op[c] = "verify" /\ pc[c] = "done"

\* A call of settle that has returned to the host.
SettleDone(c) == op[c] = "settle" /\ pc[c] = "done"

\* A call of verify that returned after Promise.all fulfilled: the signer and
\* the dry-run result it was given are on record.
VerifyJoined(c) == VerifyDone(c) /\ allP[c].state = "fulfilled"

\* The balance changes verify looked at.
ChangesOf(c) ==
    IF simP[c].value.hasBalanceChanges THEN simP[c].value.balanceChanges ELSE <<>>

\* A balance change whose owner is the address-owned variant with address a.
AddressOwnedBy(bc, a) == bc.owner.kind = "AddressOwner" /\ bc.owner.value = a

SIGNATURE_FAILED == "invalid_exact_sui_payload_transaction_signature_verification_failed"
SIMULATION_FAILED == "transaction_simulation_failed"
DRY_RUN_FAILED == "invalid_exact_sui_payload_transaction_dry_run_failed"
RECIPIENT_MISMATCH == "invalid_exact_sui_payload_recipient_mismatch"
ASSET_MISMATCH == "invalid_exact_sui_payload_asset_mismatch"
AMOUNT_INSUFFICIENT == "invalid_exact_sui_payload_amount_insufficient"

\* ----------------------------------------------------------------- claims

\* The internal verification of settle call c has returned.
Verified(c) == op[c] = "settle" /\ Logged(c, "verify.return")

\* C1. Settlement defense-in-depth: when the verification settle runs
\* internally is not valid, settle never calls executeTransaction or
\* waitForTransaction, and it returns success = false, transaction = "",
\* errorReason = the verification's invalidReason (verification_failed when
\* that is absent) and payer = the verification's payer.
C1_DefenseInDepth ==
    \A c \in CallIds :
        (Verified(c) /\ ~verification[c].isValid) =>
            /\ ~Logged(c, "executeTransaction")
            /\ ~Logged(c, "waitForTransaction")
            /\ pc[c] \in {"settle_verified", "done"}
            /\ pc[c] = "done" =>
                 /\ result[c].success = FALSE
                 /\ result[c].transaction = ""
                 /\ result[c].errorReason =
                      (IF verification[c].invalidReason = Undefined
                       THEN "verification_failed" ELSE verification[c].invalidReason)
                 /\ result[c].payer = verification[c].payer

\* Witness of C1: a settle call has returned after a verification that
\* failed with a reason and a recovered payer.
C1_Witness ==
    \E c \in CallIds :
        /\ SettleDone(c)
        /\ ~verification[c].isValid
        /\ verification[c].invalidReason = ASSET_MISMATCH
        /\ verification[c].payer = MOCK_PAYER

\* C2. Ordering inside settle: verify is run exactly once and has returned
\* before executeTransaction is called; executeTransaction is called at most
\* once and only after a valid verification; waitForTransaction is called at
\* most once, only after executeTransaction returned a digest, and with that
\* digest; while executeTransaction or waitForTransaction is in flight no
\* gateway call of the verification is.
C2_SettleOrdering ==
    \A c \in CallIds :
        op[c] = "settle" =>
            /\ Count(c, "verify") = 1
            /\ Count(c, "verify.return") <= 1
            /\ Count(c, "executeTransaction") <= 1
            /\ Count(c, "waitForTransaction") <= 1
            /\ Logged(c, "executeTransaction") =>
                 /\ Logged(c, "verify.return")
                 /\ FirstAt(c, "verify.return") < FirstAt(c, "executeTransaction")
                 /\ verification[c].isValid
            /\ Logged(c, "waitForTransaction") =>
                 /\ Logged(c, "executeTransaction.return")
                 /\ FirstAt(c, "executeTransaction") < FirstAt(c, "executeTransaction.return")
                 /\ FirstAt(c, "executeTransaction.return") < FirstAt(c, "waitForTransaction")
                 /\ log[c][FirstAt(c, "waitForTransaction")].a1
                      = log[c][FirstAt(c, "executeTransaction.return")].a1
            /\ pc[c] \in {"settle_executing", "settle_waiting"} =>
                 /\ sigP[c].state = "fulfilled"
                 /\ simP[c].state = "fulfilled"
            /\ pc[c] = "verify_await" =>
                 /\ ~Logged(c, "executeTransaction")
                 /\ ~Logged(c, "waitForTransaction")

\* Witness of C2: a settle call went through verification, broadcast and
\* finality wait and returned success.
C2_Witness ==
    \E c \in CallIds :
        /\ SettleDone(c)
        /\ result[c].success
        /\ Logged(c, "waitForTransaction.return")

\* The first balance change the matcher accepts for call c (0 if none):
\* the first entry for the required recipient whose coin type is the
\* required asset after normalization.
MatchedAt(c) ==
    LET changes == ChangesOf(c)
        Hit(i) == /\ extractAddress(changes[i].owner) = requirements[c].payTo
                  /\ coinTypesEqual(changes[i].coinType, requirements[c].asset)
    IN  IF \E i \in DOMAIN changes : Hit(i)
        THEN CHOOSE i \in DOMAIN changes : Hit(i) /\ \A j \in 1..(i - 1) : ~Hit(j)
        ELSE 0

\* C3. No valid verdict without a sufficient payment: verify returns
\* isValid = true only if the three early checks passed, a signer was
\* recovered, the simulation's status is success and the balance changes
\* hold an entry address-owned by payTo, of the required asset after
\* normalization, with an amount >= the required amount; then payer is the
\* recovered signer and invalidReason is absent.
C3_ValidOnlyIfPaid ==
    \A c \in CallIds :
        (VerifyDone(c) /\ result[c].isValid) =>
            /\ PassesEarlyChecks(payload[c], requirements[c])
            /\ sigP[c].state = "fulfilled"
            /\ simP[c].state = "fulfilled"
            /\ simP[c].value.status = "success"
            /\ \E i \in DOMAIN ChangesOf(c) :
                 /\ AddressOwnedBy(ChangesOf(c)[i], requirements[c].payTo)
                 /\ coinTypesEqual(ChangesOf(c)[i].coinType, requirements[c].asset)
                 /\ BigIntParses(ChangesOf(c)[i].amount)
                 /\ BigIntParses(requirements[c].amount)
                 /\ BigInt(ChangesOf(c)[i].amount) >= BigInt(requirements[c].amount)
            /\ result[c].payer = sigP[c].value
            /\ result[c].invalidReason = Undefined

\* C4. Amount threshold: when the matcher found the balance change for the
\* required recipient and asset and both amounts are integers, verify
\* returns amount-insufficient with payer = recovered signer if the delta is
\* below the required amount, and isValid = true otherwise (exact payment
\* and overpayment alike; a negative delta is below every required amount).
C4_AmountThreshold ==
    \A c \in CallIds :
        ( /\ VerifyJoined(c)
          /\ simP[c].value.status = "success"
          /\ MatchedAt(c) # 0
          /\ BigIntParses(ChangesOf(c)[MatchedAt(c)].amount)
          /\ BigIntParses(requirements[c].amount) ) =>
            LET d == BigInt(ChangesOf(c)[MatchedAt(c)].amount)
                a == BigInt(requirements[c].amount)
            IN  /\ d < a =>
                     /\ ~result[c].isValid
                     /\ result[c].invalidReason = AMOUNT_INSUFFICIENT
                     /\ result[c].payer = sigP[c].value
                /\ d >= a =>
                     /\ result[c].isValid
                     /\ result[c].payer = sigP[c].value

\* Witness of C4: an exact payment (delta 2, required 2) was accepted.
C4_Witness ==
    \E c \in CallIds :
        /\ VerifyJoined(c)
        /\ simP[c].value.status = "success"
        /\ MatchedAt(c) # 0
        /\ ChangesOf(c)[MatchedAt(c)].amount = <<"2">>
        /\ requirements[c].amount = <<"2">>
        /\ result[c].isValid

\* C5. Mismatch classification (P1): when the simulation succeeded and the
\* balance changes hold an entry address-owned by payTo but none of those
\* entries has the required asset, verify returns the asset-mismatch reason
\* with payer = recovered signer.
C5_AssetMismatch ==
    \A c \in CallIds :
        ( /\ VerifyJoined(c)
          /\ simP[c].value.status = "success"
          /\ \E i \in DOMAIN ChangesOf(c) :
               AddressOwnedBy(ChangesOf(c)[i], requirements[c].payTo)
          /\ \A i \in DOMAIN ChangesOf(c) :
               AddressOwnedBy(ChangesOf(c)[i], requirements[c].payTo) =>
                   ~coinTypesEqual(ChangesOf(c)[i].coinType, requirements[c].asset) ) =>
            /\ ~result[c].isValid
            /\ result[c].invalidReason = ASSET_MISMATCH
            /\ result[c].payer = sigP[c].value

\* C6. Recipient mismatch (P2): when the signer was recovered, the
\* simulation succeeded and no balance change is address-owned by payTo
\* (an empty or absent list included), verify returns the
\* recipient-mismatch reason with payer = recovered signer.
C6_RecipientMismatch ==
    \A c \in CallIds :
        ( /\ VerifyJoined(c)
          /\ simP[c].value.status = "success"
          /\ \A i \in DOMAIN ChangesOf(c) :
               ~AddressOwnedBy(ChangesOf(c)[i], requirements[c].payTo) ) =>
            /\ ~result[c].isValid
            /\ result[c].invalidReason = RECIPIENT_MISMATCH
            /\ result[c].payer = sigP[c].value

\* C7 as stated. Effect-status check: when the signer was recovered and the
\* simulation's status is not success, verify returns the dry-run-failed
\* reason with invalidMessage = the chain-provided error text and payer =
\* recovered signer.
C7_DryRunFailed_Original ==
    \A c \in CallIds :
        (VerifyJoined(c) /\ simP[c].value.status # "success") =>
            /\ ~result[c].isValid
            /\ result[c].invalidReason = DRY_RUN_FAILED
            /\ result[c].invalidMessage = simP[c].value.error
            /\ result[c].payer = sigP[c].value

\* C7, amended. Effect-status check: when the signer was recovered and the
\* simulation's status is not success, verify returns the dry-run-failed
\* reason with payer = recovered signer, whatever the balance changes are;
\* invalidMessage is the chain-provided error text when that text is present
\* and not empty, and the fixed text "Simulation failed" otherwise.
C7_DryRunFailed ==
    \A c \in CallIds :
        (VerifyJoined(c) /\ simP[c].value.status # "success") =>
            /\ ~result[c].isValid
            /\ result[c].invalidReason = DRY_RUN_FAILED
            /\ result[c].invalidMessage =
                 (IF simP[c].value.error \in {UndefinedText, EmptyText}
                  THEN <<"Simulation failed">> ELSE simP[c].value.error)
            /\ result[c].payer = sigP[c].value

\* Witness of C7: a failed simulation whose balance changes would have paid
\* was rejected with the chain's error text.
C7_Witness ==
    \E c \in CallIds :
        /\ VerifyJoined(c)
        /\ simP[c].value.status = "failure"
        /\ simP[c].value.error = <<"InsufficientCoinBalance">>
        /\ simP[c].value.balanceChanges = PayingChanges
        /\ requirements[c].payTo = MOCK_PAYTO
        /\ requirements[c].amount = <<"2">>
        /\ result[c].invalidReason = DRY_RUN_FAILED

\* C8. Signature precedence on joint failure: when signature recovery
\* raises "Invalid signature" and the simulation raises too, in either
\* order, verify returns the signature-verification-failed reason.
C8_SignaturePrecedence ==
    \A c \in CallIds :
        ( /\ VerifyDone(c)
          /\ sigP[c].state = "rejected"
          /\ sigP[c].reason = ThrownValue(TRUE, <<"Invalid signature">>)
          /\ simP[c].state = "rejected" ) =>
            result[c].invalidReason = SIGNATURE_FAILED

\* C9. Signature failure classification: when signature recovery raises
\* (any of its errors) and the simulation resolves, verify returns
\* isValid = false with the signature-verification-failed reason and
\* payer = none.
C9_SignatureFailure ==
    \A c \in CallIds :
        ( /\ VerifyDone(c)
          /\ sigP[c].state = "rejected"
          /\ simP[c].state = "fulfilled" ) =>
            /\ ~result[c].isValid
            /\ result[c].invalidReason = SIGNATURE_FAILED
            /\ result[c].payer = Undefined

\* C10. Simulation failure classification: when the signer was recovered
\* and the simulation call raises, with whatever text, verify returns
\* isValid = false with the simulation-failed reason and payer = none.
C10_SimulationFailure ==
    \A c \in CallIds :
        ( /\ VerifyDone(c)
          /\ sigP[c].state = "fulfilled"
          /\ simP[c].state = "rejected" ) =>
            /\ ~result[c].isValid
            /\ result[c].invalidReason = SIMULATION_FAILED
            /\ result[c].payer = Undefined

\* A call whose verification has returned: verify to the host, or the
\* verification settle runs internally.
HasVerifyResult(c) == VerifyDone(c) \/ Verified(c)

\* The VerifyResponse that verification returned.
VerifyResultOf(c) == IF op[c] = "settle" THEN verification[c] ELSE result[c]

UNSUPPORTED_SCHEME == "unsupported_scheme"
NETWORK_MISMATCH == "network_mismatch"
MALFORMED_PAYLOAD == "invalid_exact_sui_payload_transaction_could_not_be_decoded"

\* C11. Payer propagation (P6): every verify result of a call in which
\* signature recovery succeeded carries the recovered signer, non-empty, as
\* payer, whichever later step failed (simulation raising included).
C11_PayerPropagation ==
    \A c \in CallIds :
        (HasVerifyResult(c) /\ sigP[c].state = "fulfilled") =>
            /\ VerifyResultOf(c).payer = sigP[c].value
            /\ VerifyResultOf(c).payer \notin {Undefined, ""}

\* The scheme tags of call c are not both "exact".
SchemeDiffers(c) ==
    payload[c].accepted.scheme # "exact" \/ requirements[c].scheme # "exact"

\* The networks of payload and requirements of call c differ.
NetworkDiffers(c) == payload[c].accepted.network # requirements[c].network

\* The scheme-specific body of call c is absent or lacks a non-empty
\* transaction or a non-empty signature.
BodyMalformed(c) ==
    \/ ~payload[c].payload.defined
    \/ payload[c].payload.transaction \in {Undefined, ""}
    \/ payload[c].payload.signature \in {Undefined, ""}

\* C12. Scheme check: when payload.accepted.scheme or requirements.scheme
\* is not "exact", verify returns isValid = false, unsupported_scheme and no
\* payer, whatever the networks and the body are.
C12_SchemeCheck ==
    \A c \in CallIds :
        (HasVerifyResult(c) /\ SchemeDiffers(c)) =>
            /\ ~VerifyResultOf(c).isValid
            /\ VerifyResultOf(c).invalidReason = UNSUPPORTED_SCHEME
            /\ VerifyResultOf(c).payer = Undefined

\* Witness of C12: only the requirements' scheme differs, and the networks
\* differ and the body is absent at the same time.
C12_Witness ==
    \E c \in CallIds :
        /\ VerifyDone(c)
        /\ payload[c].accepted.scheme = "exact"
        /\ requirements[c].scheme = "upto"
        /\ NetworkDiffers(c)
        /\ ~payload[c].payload.defined
        /\ result[c].invalidReason = UNSUPPORTED_SCHEME

\* C13. Network check: when both schemes are "exact" and the networks
\* differ, verify returns isValid = false, network_mismatch and no payer,
\* whatever the body is.
C13_NetworkCheck ==
    \A c \in CallIds :
        (HasVerifyResult(c) /\ ~SchemeDiffers(c) /\ NetworkDiffers(c)) =>
            /\ ~VerifyResultOf(c).isValid
            /\ VerifyResultOf(c).invalidReason = NETWORK_MISMATCH
            /\ VerifyResultOf(c).payer = Undefined

\* Witness of C13: the networks differ and the body has no signature.
C13_Witness ==
    \E c \in CallIds :
        /\ VerifyDone(c)
        /\ ~SchemeDiffers(c)
        /\ NetworkDiffers(c)
        /\ payload[c].payload.defined
        /\ payload[c].payload.signature = Undefined
        /\ result[c].invalidReason = NETWORK_MISMATCH

\* C14. Payload shape check: when the scheme and network checks pass and
\* the body is absent or lacks a non-empty transaction or a non-empty
\* signature, verify returns isValid = false, the malformed-payload reason
\* and no payer.
C14_PayloadShapeCheck ==
    \A c \in CallIds :
        (HasVerifyResult(c) /\ ~SchemeDiffers(c) /\ ~NetworkDiffers(c) /\ BodyMalformed(c)) =>
            /\ ~VerifyResultOf(c).isValid
            /\ VerifyResultOf(c).invalidReason = MALFORMED_PAYLOAD
            /\ VerifyResultOf(c).payer = Undefined

\* Witness of C14: a body with a transaction and an empty signature.
C14_Witness ==
    \E c \in CallIds :
        /\ VerifyDone(c)
        /\ ~SchemeDiffers(c)
        /\ ~NetworkDiffers(c)
        /\ payload[c].payload.transaction = "mock-transaction-base64"
        /\ payload[c].payload.signature = ""
        /\ result[c].invalidReason = MALFORMED_PAYLOAD

\* C15. Short-circuit before the gateway: a call that fails the scheme,
\* network or payload-shape check never calls verifySignature or
\* simulateTransaction, and its verification has returned at once.
C15_ShortCircuit ==
    \A c \in CallIds :
        (op[c] # "none" /\ (SchemeDiffers(c) \/ NetworkDiffers(c) \/ BodyMalformed(c))) =>
            /\ ~Logged(c, "verifySignature")
            /\ ~Logged(c, "simulateTransaction")
            /\ sigP[c].state = "none"
            /\ simP[c].state = "none"
            /\ HasVerifyResult(c)
            /\ pc[c] # "verify_await"

\* Witness of C15: a verify call returned network_mismatch having logged
\* nothing but its own entry and return.
C15_Witness ==
    \E c \in CallIds :
        /\ VerifyDone(c)
        /\ result[c].invalidReason = NETWORK_MISMATCH
        /\ Len(log[c]) = 2
        /\ log[c][1].fn = "verify"
        /\ log[c][2].fn = "verify.return"

\* The functions a verification may enter or call.
VerifyEvents == {"verify", "verifySignature", "simulateTransaction", "verify.return"}

\* C16. verify never mutates the chain: a verify call never calls
\* executeTransaction or waitForTransaction, its only gateway calls are
\* verifySignature and simulateTransaction; the same holds of the
\* verification inside settle until that verification has returned.
C16_VerifyReadOnly ==
    \A c \in CallIds :
        /\ op[c] = "verify" =>
             /\ \A i \in DOMAIN log[c] : log[c][i].fn \in VerifyEvents
             /\ pc[c] \in {"verify_await", "done"}
             /\ digest[c] = Undefined
        /\ (op[c] = "settle" /\ ~Logged(c, "verify.return")) =>
             \A i \in DOMAIN log[c] : log[c][i].fn \in VerifyEvents

\* Witness of C16: a verify call returned isValid = true after exactly the
\* two read-only gateway calls.
C16_Witness ==
    \E c \in CallIds :
        /\ VerifyDone(c)
        /\ result[c].isValid
        /\ Count(c, "verifySignature") = 1
        /\ Count(c, "simulateTransaction") = 1
        /\ Len(log[c]) = 4

\* C18. Result invariant of verify: a VerifyResponse with isValid = true has
\* a non-empty payer and no invalidReason; one with isValid = false has an
\* invalidReason.
C18_VerifyResultInvariant ==
    \A c \in CallIds :
        HasVerifyResult(c) =>
            /\ VerifyResultOf(c).isValid =>
                 /\ VerifyResultOf(c).payer \notin {Undefined, ""}
                 /\ VerifyResultOf(c).invalidReason = Undefined
            /\ ~VerifyResultOf(c).isValid =>
                 VerifyResultOf(c).invalidReason \notin {Undefined, ""}

\* Witness of C18: the verification inside settle was valid for signer 0xeee.
C18_Witness ==
    \E c \in CallIds :
        /\ Verified(c)
        /\ verification[c].isValid
        /\ verification[c].payer = "0xeee"

\* C19. Result invariant of settle: a SettleResponse with success = true has
\* a non-empty transaction that is the digest executeTransaction returned,
\* network = payload.accepted.network and payer = the signer the internal
\* verification recovered, and is returned only after waitForTransaction
\* returned without error.
C19_SettleSuccessInvariant ==
    \A c \in CallIds :
        (SettleDone(c) /\ result[c].success) =>
            /\ verification[c].isValid
            /\ Logged(c, "executeTransaction.return")
            /\ result[c].transaction \notin {Undefined, ""}
            /\ result[c].transaction = log[c][FirstAt(c, "executeTransaction.return")].a1
            /\ result[c].network = payload[c].accepted.network
            /\ sigP[c].state = "fulfilled"
            /\ result[c].payer = sigP[c].value
            /\ Logged(c, "waitForTransaction.return")
            /\ FirstAt(c, "waitForTransaction") < FirstAt(c, "waitForTransaction.return")
            /\ ~Logged(c, "executeTransaction.throw")
            /\ ~Logged(c, "waitForTransaction.throw")

\* Witness of C19: settle returned success with the broadcast digest on
\* testnet for signer 0xeee.
C19_Witness ==
    \E c \in CallIds :
        /\ SettleDone(c)
        /\ result[c].success
        /\ result[c].transaction = "mock-digest-123"
        /\ result[c].network = SUI_TESTNET_CAIP2
        /\ result[c].payer = "0xeee"

\* The text of the error executeTransaction or waitForTransaction raised.
RaisedText(c) ==
    IF Logged(c, "executeTransaction.throw")
    THEN log[c][FirstAt(c, "executeTransaction.throw")].a1
    ELSE log[c][FirstAt(c, "waitForTransaction.throw")].a1

\* C20. Broadcast/finality failure: when the internal verification is valid
\* and executeTransaction or waitForTransaction raises, settle returns
\* success = false, errorReason = "transaction_failed", errorMessage = the
\* error's text, transaction = "" and payer = the recovered signer; after
\* executeTransaction raised, waitForTransaction is not called.
C20_BroadcastFailure ==
    \A c \in CallIds :
        ( /\ op[c] = "settle"
          /\ Logged(c, "executeTransaction.throw") \/ Logged(c, "waitForTransaction.throw") ) =>
            /\ verification[c].isValid
            /\ pc[c] = "done"
            /\ result[c].success = FALSE
            /\ result[c].errorReason = "transaction_failed"
            /\ result[c].errorMessage = RaisedText(c)
            /\ result[c].transaction = ""
            /\ sigP[c].state = "fulfilled"
            /\ result[c].payer = sigP[c].value
            /\ Logged(c, "executeTransaction.throw") => ~Logged(c, "waitForTransaction")

\* Witness of C20: waitForTransaction raised the non-Error value "timeout"
\* after a broadcast that returned a digest.
C20_Witness ==
    \E c \in CallIds :
        /\ SettleDone(c)
        /\ Logged(c, "executeTransaction.return")
        /\ Logged(c, "waitForTransaction.throw")
        /\ result[c].errorMessage = <<"timeout">>
        /\ result[c].payer = MOCK_PAYER

\* The value call c returned is a VerifyResponse (verify) or a
\* SettleResponse built on a VerifyResponse (settle), not a thrown value.
ReturnedStructured(c) ==
    IF op[c] = "verify"
    THEN /\ DOMAIN result[c] = {"isValid", "invalidReason", "invalidMessage", "payer"}
         /\ result[c].isValid \in BOOLEAN
    ELSE /\ DOMAIN verification[c] = {"isValid", "invalidReason", "invalidMessage", "payer"}
         /\ DOMAIN result[c] =
              {"success", "transaction", "network", "errorReason", "errorMessage", "payer"}
         /\ result[c].success \in BOOLEAN
         /\ ~result[c].success => result[c].errorReason # Undefined

\* C17. verify and settle always return a value and never throw: under a
\* gateway that answers every call (resolving or raising), every call of
\* verify or settle completes, and what it completes with is a structured
\* VerifyResponse or SettleResponse.
C17_AlwaysReturns ==
    /\ [](\A c \in CallIds : pc[c] = "done" => ReturnedStructured(c))
    /\ \A c \in CallIds : (pc[c] # "idle") ~> (pc[c] = "done")

\* Witness of C17: settle completed after signature recovery raised, with
\* the reason the catch block of verify gave it.
C17_Witness ==
    \E c \in CallIds :
        /\ SettleDone(c)
        /\ sigP[c].state = "rejected"
        /\ simP[c].state = "pending"
        /\ result[c].success = FALSE
        /\ result[c].errorReason = SIGNATURE_FAILED

\* The reasons verify and settle can give. In the order of the taxonomy:
\* unsupported_scheme, network_mismatch, malformed_payload,
\* signature_verification_failed, simulation_failed, dry_run_failed,
\* recipient_mismatch, asset_mismatch, amount_insufficient,
\* verification_failed, transaction_failed.
VERIFICATION_FAILED == "verification_failed"
TRANSACTION_FAILED == "transaction_failed"
Taxonomy ==
    {UNSUPPORTED_SCHEME, NETWORK_MISMATCH, MALFORMED_PAYLOAD, SIGNATURE_FAILED,
     SIMULATION_FAILED, DRY_RUN_FAILED, RECIPIENT_MISMATCH, ASSET_MISMATCH,
     AMOUNT_INSUFFICIENT, VERIFICATION_FAILED, TRANSACTION_FAILED}

\* C21. Closed error taxonomy: every invalidReason of a verification that
\* is not valid and every errorReason of a settlement that did not succeed
\* is one of the eleven tags of the taxonomy; a valid verification and a
\* successful settlement carry no reason.
C21_ClosedTaxonomy ==
    \A c \in CallIds :
        /\ HasVerifyResult(c) =>
             IF VerifyResultOf(c).isValid
             THEN VerifyResultOf(c).invalidReason = Undefined
             ELSE VerifyResultOf(c).invalidReason \in Taxonomy
        /\ SettleDone(c) =>
             IF result[c].success
             THEN result[c].errorReason = Undefined
             ELSE result[c].errorReason \in Taxonomy

\* Witness of C21: settle passed on the dry-run-failed reason of its
\* verification.
C21_Witness ==
    \E c \in CallIds :
        /\ SettleDone(c)
        /\ ~result[c].success
        /\ result[c].errorReason = DRY_RUN_FAILED

\* The reasons verify gives only after Promise.all fulfilled.
AfterJoinReasons ==
    {DRY_RUN_FAILED, RECIPIENT_MISMATCH, ASSET_MISMATCH, AMOUNT_INSUFFICIENT}

\* What C22 requires of every state.
ParallelJoinInvariant ==
    \A c \in CallIds :
        /\ (op[c] # "none" /\ ~SchemeDiffers(c) /\ ~NetworkDiffers(c) /\ ~BodyMalformed(c)) =>
             /\ Count(c, "verifySignature") = 1
             /\ Count(c, "simulateTransaction") = 1
             /\ FirstAt(c, "simulateTransaction") = FirstAt(c, "verifySignature") + 1
             /\ sigP[c].state # "none"
             /\ simP[c].state # "none"
             /\ Logged(c, "verify.return") =>
                  FirstAt(c, "simulateTransaction") < FirstAt(c, "verify.return")
        /\ (HasVerifyResult(c)
             /\ (VerifyResultOf(c).isValid \/ VerifyResultOf(c).invalidReason \in AfterJoinReasons)) =>
             /\ sigP[c].state = "fulfilled"
             /\ simP[c].state = "fulfilled"
        /\ (HasVerifyResult(c) /\ "rejected" \in {sigP[c].state, simP[c].state}) =>
             ~VerifyResultOf(c).isValid
        /\ pc[c] = "verify_await" =>
             (allP[c].state = "fulfilled") =
                (sigP[c].state = "fulfilled" /\ simP[c].state = "fulfilled")

\* What C22 requires of every step: the settling of one branch leaves the
\* other branch as it is, pending included.
ParallelJoinStep ==
    \A c \in CallIds :
        /\ (sigP[c].state = "pending" /\ sigP'[c] # sigP[c]) => simP'[c] = simP[c]
        /\ (simP[c].state = "pending" /\ simP'[c] # simP[c]) => sigP'[c] = sigP[c]
        /\ sigP[c].state = "pending" => sigP'[c].state # "none"
        /\ simP[c].state = "pending" => simP'[c].state # "none"

\* C22. Parallel join: a verify call that passes the three early checks
\* launches verifySignature and simulateTransaction, each exactly once and
\* both before it awaits; the failure of one branch does not touch the
\* other branch's call; verify reaches the effect-status and balance checks
\* only when both branches have fulfilled, and is not valid when either
\* branch failed.
C22_ParallelJoin == [](ParallelJoinInvariant) /\ [][ParallelJoinStep]_vars

\* Witness of C22: the simulation still resolved after signature recovery
\* had failed and verify had returned.
C22_Witness ==
    \E c \in CallIds :
        /\ VerifyDone(c)
        /\ sigP[c].state = "rejected"
        /\ simP[c].state = "fulfilled"
        /\ allP[c].reason = sigP[c].reason

\* The balance changes of a list whose owner is address-owned.
RECURSIVE AddressOwnedOnly(_)
AddressOwnedOnly(changes) ==
    IF changes = <<>> THEN <<>>
    ELSE IF Head(changes).owner.kind = "AddressOwner"
    THEN <<Head(changes)>> \o AddressOwnedOnly(Tail(changes))
    ELSE AddressOwnedOnly(Tail(changes))

\* C23. Only address-owned balance changes count for the recipient: for
\* every payTo and every balance-change list of a successful simulation,
\* the verdict of verify is the verdict it gives on the same list without
\* the object-owned, shared and immutable entries.
C23_OnlyAddressOwned ==
    \A c \in CallIds :
        (VerifyJoined(c) /\ simP[c].value.status = "success") =>
            result[c] = AfterJoin(sigP[c].value,
                            [simP[c].value EXCEPT
                                !.balanceChanges = AddressOwnedOnly(ChangesOf(c)),
                                !.hasBalanceChanges = TRUE],
                            requirements[c])

\* C24. Settle broadcasts what it verified: executeTransaction is called
\* with the payload's transaction, the payload's one signature and the
\* requirements' network, the same three values verifySignature was called
\* with and the same transaction and network simulateTransaction was
\* called with.
C24_BroadcastsWhatWasVerified ==
    \A c \in CallIds :
        Logged(c, "executeTransaction") =>
            LET exec == log[c][FirstAt(c, "executeTransaction")]
                sig == log[c][FirstAt(c, "verifySignature")]
                sim == log[c][FirstAt(c, "simulateTransaction")]
            IN  /\ Logged(c, "verifySignature")
                /\ Logged(c, "simulateTransaction")
                /\ exec.a1 = payload[c].payload.transaction
                /\ exec.a2 = payload[c].payload.signature
                /\ exec.a3 = requirements[c].network
                /\ <<exec.a1, exec.a2, exec.a3>> = <<sig.a1, sig.a2, sig.a3>>
                /\ <<exec.a1, exec.a3>> = <<sim.a1, sim.a2>>

\* Witness of C24: a broadcast on testnet of the verified transaction.
C24_Witness ==
    \E c \in CallIds :
        /\ pc[c] = "settle_executing"
        /\ log[c][FirstAt(c, "executeTransaction")].a1 = "mock-transaction-base64"
        /\ log[c][FirstAt(c, "executeTransaction")].a2 = "mock-signature-base64"
        /\ log[c][FirstAt(c, "executeTransaction")].a3 = SUI_TESTNET_CAIP2

\* Coin types in several spellings: short and padded addresses, lower and
\* upper case.
CoinTypeForms ==
    RequiredAssets \cup ChangeCoinTypes
    \cup {[address |-> <<"D", "B", "A">>, module |-> "usdc", name |-> "USDC"],
          [address |-> <<"0", "2">>, module |-> "sui", name |-> "SUI"]}

\* C27. Asset canonicalization (P7): coinTypesEqual is reflexive and
\* symmetric and holds of two spellings of one coin type; when a balance
\* change address-owned by payTo has a coin type that normalizes to the
\* required asset, verify finds a match: its verdict is neither asset
\* mismatch nor recipient mismatch.
C27_AssetCanonicalization ==
    /\ \A a, b \in CoinTypeForms :
          /\ coinTypesEqual(a, a)
          /\ coinTypesEqual(a, b) = coinTypesEqual(b, a)
          /\ coinTypesEqual(a, b) = (NormalizeStructTag(a) = NormalizeStructTag(b))
    /\ coinTypesEqual(SUI_COIN_TYPE, SUI_COIN_TYPE_PADDED)
    /\ ~coinTypesEqual(SUI_COIN_TYPE, USDC_MAINNET)
    /\ \A c \in CallIds :
          ( /\ VerifyJoined(c)
            /\ simP[c].value.status = "success"
            /\ \E i \in DOMAIN ChangesOf(c) :
                 /\ AddressOwnedBy(ChangesOf(c)[i], requirements[c].payTo)
                 /\ NormalizeStructTag(ChangesOf(c)[i].coinType)
                      = NormalizeStructTag(requirements[c].asset) ) =>
              result[c].invalidReason \notin {ASSET_MISMATCH, RECIPIENT_MISMATCH}

\* Witness of C27: a payment in the padded spelling of the SUI coin type
\* was accepted for the short spelling.
C27_Witness ==
    \E c \in CallIds :
        /\ VerifyJoined(c)
        /\ result[c].isValid
        /\ requirements[c].asset = SUI_COIN_TYPE
        /\ requirements[c].payTo = MOCK_PAYTO
        /\ MatchedAt(c) # 0
        /\ ChangesOf(c)[MatchedAt(c)].coinType = SUI_COIN_TYPE_PADDED
        /\ ChangesOf(c)[MatchedAt(c)].coinType # requirements[c].asset


\* The call has come back from its own verification inside settle.
PastVerification(c) ==
    Verified(c) /\ pc[c] \in {"settle_executing", "settle_waiting", "done"}

\* C25: settle calls in flight at the same time are not deduplicated. Each
\* call runs its own verification (one verifySignature and one
\* simulateTransaction of its own) and, when that verification is valid, makes
\* its own call of executeTransaction for its own transaction, whatever the
\* other call has done with the same payload.
C25_NoDeduplication ==
    \A c \in ConcurrentCallIds :
        op[c] = "settle" =>
            /\ Verified(c) =>
                  /\ Count(c, "verifySignature") = 1
                  /\ Count(c, "simulateTransaction") = 1
            /\ (PastVerification(c) /\ verification[c].isValid) =>
                  /\ Count(c, "executeTransaction") = 1
                  /\ log[c][FirstAt(c, "executeTransaction")].a1
                        = payload[c].payload.transaction
            /\ Logged(c, "executeTransaction") =>
                  (Verified(c) /\ verification[c].isValid)

\* Two settle calls with the same payload and requirements have both
\* broadcast the same transaction.
C25_Witness ==
    /\ \A c \in ConcurrentCallIds : op[c] = "settle" /\ Logged(c, "executeTransaction")
    /\ payload["call1"] = payload["call2"]
    /\ requirements["call1"] = requirements["call2"]
    /\ pc["call1"] = "settle_executing"
    /\ pc["call2"] = "settle_executing"


\* Everything one call holds: its arguments, its position, its promises, its
\* results and the calls it has made.
CallState(c) ==
    <<op[c], payload[c], requirements[c], pc[c], sigP[c], simP[c], allP[c],
      verification[c], digest[c], result[c], log[c]>>

\* What a call of verify returns when it runs alone with the payload, the
\* requirements and the gateway responses that call c had.
RunAlone(c) ==
    IF ~PassesEarlyChecks(payload[c], requirements[c])
    THEN EarlyResponse(payload[c], requirements[c])
    ELSE VerifyOutcome(allP[c], sigP[c].value, simP[c].value, requirements[c])

\* A step of one call leaves everything the other calls hold as it was.
NoInterferenceStep ==
    \A c \in ConcurrentCallIds :
        CallState(c)' # CallState(c) =>
            \A o \in ConcurrentCallIds \ {c} : CallState(o)' = CallState(o)

\* C26: concurrent verify calls do not interfere. In every interleaving of
\* two verify calls on one facilitator, the result of each call is the result
\* it returns alone under the gateway responses it received, a payer it
\* reports is the signer recovered from its own payload, and no step of one
\* call changes anything the other call holds.
C26_NoInterference ==
    /\ [](\A c \in ConcurrentCallIds :
              VerifyDone(c) =>
                  /\ result[c] = RunAlone(c)
                  /\ result[c].payer \in {Undefined, sigP[c].value})
    /\ [][NoInterferenceStep]_vars

\* Two verify calls on one facilitator, whose signatures recovered to
\* different signers, have each returned its own payer.
C26_Witness ==
    /\ \A c \in ConcurrentCallIds : VerifyDone(c) /\ result[c].isValid
    /\ result["call1"].payer = MOCK_PAYER
    /\ result["call2"].payer = "0xeee"
    /\ sigP["call1"].value # sigP["call2"].value


\* Timeouts a resource server may ask for.
Timeouts == {0, 30, 3600}

\* The calls a call has made to the gateway, in order, with their arguments.
GatewayCalls(c) ==
    SelectSeq(log[c], LAMBDA e : e.fn \in {"verifySignature", "simulateTransaction",
                                           "executeTransaction", "waitForTransaction"})

\* What the gateway has answered to a call: the settled promises of verify,
\* the digest of the broadcast and the errors raised by broadcast and wait.
GatewayResponses(c) ==
    <<sigP[c], simP[c], allP[c], digest[c],
      SelectSeq(log[c], LAMBDA e : e.fn \in {"executeTransaction.return",
                                             "executeTransaction.throw",
                                             "waitForTransaction.return",
                                             "waitForTransaction.throw"})>>

\* Two calls of the same method with the same payload, at the same position,
\* whose requirements differ in maxTimeoutSeconds and in nothing else.
DifferOnlyInTimeout(c, o) ==
    /\ op[c] = op[o] /\ op[c] # "none"
    /\ pc[c] = pc[o]
    /\ payload[c] = payload[o]
    /\ requirements[c].maxTimeoutSeconds # requirements[o].maxTimeoutSeconds
    /\ [requirements[c] EXCEPT !.maxTimeoutSeconds = 0]
         = [requirements[o] EXCEPT !.maxTimeoutSeconds = 0]

\* The successful simulations with one balance change.
SingleChangeDryRuns ==
    {DryRun("success", UndefinedText, TRUE, <<bc>>) : bc \in BalanceChanges}

\* No check of verify reads maxTimeoutSeconds: the early checks and the
\* checks after the join give the same answer for every timeout.
TimeoutNotReadByChecks ==
    \A req \in Requirements, t \in Timeouts :
        LET other == [req EXCEPT !.maxTimeoutSeconds = t] IN
        /\ \A pl \in Payloads :
              /\ PassesEarlyChecks(pl, other) = PassesEarlyChecks(pl, req)
              /\ EarlyResponse(pl, other) = EarlyResponse(pl, req)
        /\ \A dryRunResult \in ConcurrentDryRuns \cup SingleChangeDryRuns :
              AfterJoin(MOCK_PAYER, dryRunResult, other)
                  = AfterJoin(MOCK_PAYER, dryRunResult, req)

\* C28: maxTimeoutSeconds is not enforced. No check of verify gives a
\* different answer for a different timeout; and two calls of verify, or two
\* calls of settle whose verification came back the same, with the same
\* payload and with requirements that differ only in maxTimeoutSeconds have,
\* under the same gateway responses, made the same gateway calls and hold
\* the same result.
C28_TimeoutNotEnforced ==
    /\ TimeoutNotReadByChecks
    /\ \A c, o \in ConcurrentCallIds :
          (/\ DifferOnlyInTimeout(c, o)
           /\ GatewayResponses(c) = GatewayResponses(o)
           /\ op[c] = "settle" => verification[c] = verification[o]) =>
              /\ GatewayCalls(c) = GatewayCalls(o)
              /\ result[c] = result[o]
              /\ log[c] = log[o]

\* Two settle calls with timeouts 30 and 3600 have both settled the same
\* payment with success.
C28_Witness ==
    /\ DifferOnlyInTimeout("call1", "call2")
    /\ GatewayResponses("call1") = GatewayResponses("call2")
    /\ SettleDone("call1") /\ result["call1"].success
    /\ SettleDone("call2") /\ result["call2"].success
    /\ Count("call1", "executeTransaction") = 1


\* The decimal amount parsePrice hands to the parsers in a call.
AmountOf(call) == parseMoneyToDecimal(call.price).value

\* What the i-th registered parser returns in a call.
ParserResult(call, i) == ApplyParser(call.parsers[i], AmountOf(call), call.network)

\* The chain of a call: the parsers consulted are the first registered ones,
\* in registration order; every one before the last returned null; a last
\* one that returned non-null gave the result of the call; the default USDC
\* conversion was used exactly when every registered parser returned null,
\* and then it gave the result.
ChainHolds(call) ==
    LET n == Len(call.consulted) IN
    /\ n <= Len(call.parsers)
    /\ call.consulted = SubSeq(call.parsers, 1, n)
    /\ \A i \in 1..(n - 1) : ParserResult(call, i).isNull
    /\ (n > 0 /\ ~ParserResult(call, n).isNull) =>
          call.outcome = Returns(ParserResult(call, n).value)
    /\ (n = 0 \/ ParserResult(call, n).isNull) => n = Len(call.parsers)
    /\ call.usedDefault <=> \A i \in DOMAIN call.parsers : ParserResult(call, i).isNull
    /\ call.usedDefault =>
          call.outcome = defaultMoneyConversion(AmountOf(call), call.network)

\* A pre-parsed AssetAmount: no parser consulted, no default conversion;
\* returned with its amount and asset when it has an asset, rejected with an
\* error when it has none.
AssetAmountHolds(call) ==
    LET given == call.price.assetAmount IN
    /\ call.consulted = <<>>
    /\ ~call.usedDefault
    /\ IF TruthyAsset(given.asset)
       THEN /\ ~call.outcome.threw
            /\ call.outcome.value.amount = given.amount
            /\ call.outcome.value.asset = given.asset
            /\ given.extra.defined => call.outcome.value.extra = given.extra
       ELSE call.outcome.threw

\* Parsers are only ever added at the end of the chain, and a call of
\* parsePrice runs on the chain as it stands and leaves it as it was.
RegistrationOrderStep ==
    /\ moneyParsers' # moneyParsers =>
          \E parser \in MoneyParsers : moneyParsers' = Append(moneyParsers, parser)
    /\ parsed' # parsed =>
          /\ parsed'.call.parsers = moneyParsers
          /\ moneyParsers' = moneyParsers

\* The statement of C29 as written, over every Money value: the chain runs
\* on every string or number.
C29_ParserChain_Original ==
    parsed.called =>
        IF parsed.call.price.type = "object"
        THEN AssetAmountHolds(parsed.call)
        ELSE ChainHolds(parsed.call)

\* C29: money-parser chain of the server scheme. After any sequence of
\* registerMoneyParser calls, parsePrice on a Money value that reads as a
\* decimal amount consults the registered parsers in registration order,
\* returns the result of the first that returns non-null without consulting
\* the later ones, and uses the default USDC conversion for the network if
\* and only if every registered parser returned null; a Money string that
\* does not read as a number is rejected with an error before any parser is
\* consulted; a pre-parsed AssetAmount is returned without consulting any
\* parser and is rejected with an error when it has no asset.
C29_ParserChain ==
    /\ [](parsed.called =>
            IF parsed.call.price.type = "object"
            THEN AssetAmountHolds(parsed.call)
            ELSE IF parseMoneyToDecimal(parsed.call.price).threw
            THEN /\ parsed.call.outcome.threw
                 /\ parsed.call.outcome.error.message[1] = "Invalid money format: "
                 /\ parsed.call.consulted = <<>>
                 /\ ~parsed.call.usedDefault
            ELSE ChainHolds(parsed.call))
    /\ [][RegistrationOrderStep]_vars

\* "150 sui" on testnet with two parsers registered: the first prices it in
\* SUI, and the second, which would have priced it too, is not consulted.
C29_Witness ==
    /\ parsed.called
    /\ parsed.call.price = MoneyString(<<"1", "5", "0", " ", "s", "u", "i">>)
    /\ parsed.call.network = SUI_TESTNET_CAIP2
    /\ parsed.call.parsers = <<"largeInSui", "testnetToken">>
    /\ moneyParsers = parsed.call.parsers
    /\ parsed.call.consulted = <<"largeInSui">>
    /\ ~ParserResult(parsed.call, 2).isNull
    /\ parsed.call.outcome.value.asset = SUI_COIN_TYPE
    /\ parsed.call.outcome.value.amount
         = <<"1", "5", "0", "0", "0", "0", "0", "0", "0", "0", "0", "0">>

\* The keys of an `extra`.
Keys(extra) == IF extra.defined THEN DOMAIN extra.fields ELSE {}

\* C30: enhancePaymentRequirements returns requirements whose extra is the
\* union of the requirements' own extra and the facilitator's
\* supportedKind.extra, the facilitator's value on a key present in both, and
\* whose scheme, network, asset, amount, payTo and maxTimeoutSeconds are
\* those of the requirements it was given.
C30_EnhanceRequirements ==
    enhanced.called =>
        LET given == enhanced.paymentRequirements
            kind == enhanced.supportedKind
            returned == enhanced.returned
        IN  /\ returned.extra.defined
            /\ DOMAIN returned.extra.fields = Keys(given.extra) \cup Keys(kind.extra)
            /\ \A key \in DOMAIN returned.extra.fields :
                  returned.extra.fields[key] =
                      IF key \in Keys(kind.extra) THEN kind.extra.fields[key]
                      ELSE given.extra.fields[key]
            /\ DOMAIN returned = DOMAIN given
            /\ \A field \in DOMAIN given \ {"extra"} : returned[field] = given[field]

\* Both sides name a gas station: the facilitator's address is the one in
\* the result, beside the requirements' own custom field.
C30_Witness ==
    /\ enhanced.called
    /\ enhanced.paymentRequirements.extra
         = Extra([custom |-> "value", gasStation |-> "https://old.example.com"])
    /\ enhanced.supportedKind.extra = Extra([gasStation |-> "https://gas.example.com"])
    /\ enhanced.returned.extra
         = Extra([custom |-> "value", gasStation |-> "https://gas.example.com"])
    /\ enhanced.returned.payTo = MOCK_PAYTO


\* C32: settle failure results are consistent with what was done on chain.
\* Every settle result with success = false has transaction = ""; its
\* errorReason is transaction_failed if and only if executeTransaction was
\* called during that settle call, so with any other reason nothing was
\* broadcast.
C32_SettleFailureConsistency ==
    \A c \in CallIds :
        (SettleDone(c) /\ ~result[c].success) =>
            /\ result[c].transaction = ""
            /\ result[c].errorReason = TRANSACTION_FAILED
                  <=> Logged(c, "executeTransaction")
            /\ result[c].errorReason # TRANSACTION_FAILED =>
                  /\ ~Logged(c, "executeTransaction")
                  /\ ~Logged(c, "waitForTransaction")

\* The broadcast went through and the wait for finality raised: the result
\* is a failure with reason transaction_failed and no digest.
C32_Witness ==
    \E c \in CallIds :
        /\ SettleDone(c) /\ ~result[c].success
        /\ digest[c] # Undefined
        /\ Logged(c, "waitForTransaction.throw")
        /\ result[c].errorReason = TRANSACTION_FAILED
        /\ result[c].transaction = ""


\* ------------------------------------------ runs with longer balance lists

\* Longest list of balance changes in the runs that look at the selection among
\* several entries.
MaxSelection == 3

\* Balance changes in SUI: 2 paid to or taken from MOCK_PAYTO and the address
\* "", 2 paid to an object, and entries for MOCK_PAYTO whose amount is the
\* empty string or no number.
SelectionChanges ==
    [owner : AddressOwners, coinType : {SUI_COIN_TYPE_PADDED}, amount : ChangeAmounts]
    \cup {[owner |-> ObjectOwner(MOCK_PAYTO), coinType |-> SUI_COIN_TYPE_PADDED,
           amount |-> <<"2">>]}
    \cup [owner : {AddressOwner(MOCK_PAYTO)}, coinType : {SUI_COIN_TYPE_PADDED},
          amount : {<<>>, <<"x">>}]

\* All lists of at most n of these balance changes.
RECURSIVE SelectionLists(_)
SelectionLists(n) ==
    IF n = 0 THEN {<<>>}
    ELSE LET shorter == SelectionLists(n - 1)
         IN  shorter \cup {Append(l, bc) : l \in {k \in shorter : Len(k) = n - 1},
                                           bc \in SelectionChanges}

\* Successful simulations reporting these lists.
SelectionDryRuns ==
    {DryRun("success", UndefinedText, TRUE, l) : l \in SelectionLists(MaxSelection)}

\* Amount strings of these runs: 2, 3, the empty string, and two strings that
\* are no number.
SelectionAmounts == {<<"2">>, <<"3">>, <<>>, <<"x">>, <<"Invalid signature">>}

\* Requirements in SUI, payable to either payTo.
SelectionRequirements ==
    [scheme : {"exact"}, network : {SUI_MAINNET_CAIP2}, asset : {SUI_COIN_TYPE},
     amount : SelectionAmounts, payTo : PayTos, maxTimeoutSeconds : {3600}]

\* The host calls verify or settle with the payload of the tests.
selectionVerify(c) ==
    /\ pc[c] = "idle"
    /\ \E pl \in ConcurrentPayloads, req \in SelectionRequirements :
          VerifyBegins(c, "verify", pl, req)
selectionSettle(c) ==
    /\ pc[c] = "idle"
    /\ \E pl \in ConcurrentPayloads, req \in SelectionRequirements :
          VerifyBegins(c, "settle", pl, req)

\* verify resumes on one of these simulations.
selectionVerifyResumes(c) ==
    /\ pc[c] = "verify_await"
    /\ \E dryRunResult \in IF allP[c].state = "fulfilled" THEN SelectionDryRuns ELSE {NoDryRun} :
          verifyResumesWith(c, dryRunResult)

SelectionNext ==
    \E c \in CallIds :
        \/ selectionVerify(c)
        \/ selectionSettle(c)
        \/ verifySignatureResolves(c)
        \/ verifySignatureRejects(c)
        \/ simulateTransactionResolves(c)
        \/ simulateTransactionRejects(c)
        \/ selectionVerifyResumes(c)
        \/ settleResumes(c)
        \/ executeTransactionResolves(c)
        \/ executeTransactionRejects(c)
        \/ waitForTransactionResolves(c)
        \/ waitForTransactionRejects(c)

SelectionSpec == Init /\ [][SelectionNext]_vars

\* The places in a list of balance changes whose entry is owned by the
\* address payTo and whose coin type is canonically equal to the asset.
EntriesFor(changes, req) ==
    {i \in DOMAIN changes :
        /\ changes[i].owner.kind = "AddressOwner"
        /\ changes[i].owner.value = req.payTo
        /\ coinTypesEqual(changes[i].coinType, req.asset)}

\* The first place among a non-empty set of places.
FirstOf(places) == CHOOSE i \in places : \A j \in places : i <= j

\* C36: first-match selection. When the balance changes of a successful
\* simulation hold more than one entry for payTo in the required asset,
\* verify decides on the first of them in list order and on nothing else: its
\* result is the result for the list that holds that entry alone, so the
\* verdict is amount-insufficient when the first entry is below the required
\* amount whatever the later entries hold.
C36_FirstMatch ==
    \A c \in CallIds :
        (/\ VerifyJoined(c)
         /\ simP[c].value.status = "success"
         /\ Cardinality(EntriesFor(ChangesOf(c), requirements[c])) > 1) =>
            LET first == ChangesOf(c)[FirstOf(EntriesFor(ChangesOf(c), requirements[c]))] IN
            /\ result[c] = CheckAmount(first, requirements[c], sigP[c].value)
            /\ (/\ BigIntParses(first.amount) /\ BigIntParses(requirements[c].amount)
                /\ BigInt(first.amount) < BigInt(requirements[c].amount)) =>
                  result[c].invalidReason = AMOUNT_INSUFFICIENT

\* A string that reads as a decimal integer: digits, with an optional sign.
IsIntegerString(s) == s # <<>> /\ BigIntParses(s)

\* C37: unparseable amounts are rejected. When verify reaches the amount
\* check (signature recovered, simulation successful, a balance change
\* matched) and the required amount or the matched change's amount is no
\* integer string, verify returns isValid = false with the simulation-failed
\* reason and no payer; settle with a required amount that is no integer
\* string returns success = false and never calls executeTransaction.
C37_UnparseableAmounts ==
    \A c \in CallIds :
        /\ (/\ VerifyJoined(c)
            /\ simP[c].value.status = "success"
            /\ MatchedAt(c) # 0
            /\ \/ ~IsIntegerString(requirements[c].amount)
               \/ ~IsIntegerString(ChangesOf(c)[MatchedAt(c)].amount)) =>
              /\ ~result[c].isValid
              /\ result[c].invalidReason = SIMULATION_FAILED
              /\ result[c].payer = Undefined
        /\ (SettleDone(c) /\ ~IsIntegerString(requirements[c].amount)) =>
              /\ ~result[c].success
              /\ ~Logged(c, "executeTransaction")

\* ------------------------------------------------- runs with getExtra

\* The host calls getExtra between the steps of one call of verify or settle.
ExtraNext ==
    \/ getExtra
    \/ \E c \in CallIds :
        \/ selectionVerify(c)
        \/ selectionSettle(c)
        \/ verifySignatureResolves(c)
        \/ verifySignatureRejects(c)
        \/ simulateTransactionResolves(c)
        \/ simulateTransactionRejects(c)
        \/ concurrentVerifyResumes(c)
        \/ settleResumes(c)
        \/ executeTransactionResolves(c)
        \/ executeTransactionRejects(c)
        \/ waitForTransactionResolves(c)
        \/ waitForTransactionRejects(c)

ExtraInit == InitCalls(CallIds) /\ InitServer /\ InitAnyGasStation /\ InitSigner

ExtraSpec == ExtraInit /\ [][ExtraNext]_vars

\* What getExtra returned is what the construction decides: the map with the
\* gas station URL when one was given, undefined when none (or "") was.
ExtraAsConfigured ==
    lastExtra.called =>
        /\ gasStationUrl = GAS_STATION_URL => lastExtra.returned = GasStationExtra(GAS_STATION_URL)
        /\ gasStationUrl \in {Undefined, ""} => lastExtra.returned = NoGasStationExtra

\* No step changes the gas station setting or what getExtra would return.
ExtraStableStep ==
    /\ gasStationUrl' = gasStationUrl
    /\ \A n \in ExtraNetworks : ExtraFor(n)' = ExtraFor(n)

\* C31: getExtra advertises sponsorship only when configured. For every
\* network argument getExtra returns {gasStation: url} when a gas station URL
\* was given at construction and undefined when none was given; the result is
\* the same for every network, and no step of verify or settle changes it.
C31_GetExtra ==
    /\ [](ExtraAsConfigured /\ \A n, m \in ExtraNetworks : ExtraFor(n) = ExtraFor(m))
    /\ [][ExtraStableStep]_vars

\* getExtra returned the map for a network other than mainnet after a settle
\* call went through.
C31_Witness ==
    /\ lastExtra.called
    /\ lastExtra.network = "sui:localnet"
    /\ lastExtra.returned = GasStationExtra(GAS_STATION_URL)
    /\ \E c \in CallIds : SettleDone(c) /\ result[c].success

\* --------------------------------------------- runs of the default signer

SignerInit == InitCalls(CallIds) /\ InitServer /\ InitExtra /\ InitAnySigner

SignerSpec == SignerInit /\ [][SignerNext]_vars

\* The networks createSuiClient has a default URL for.
SupportedNetworks == {SUI_MAINNET_CAIP2, SUI_TESTNET_CAIP2, SUI_DEVNET_CAIP2}

\* The last call was one of the three methods that ask for a client.
ClientCall == signerCall.fn \in {"simulateTransaction", "executeTransaction", "waitForTransaction"}

\* At most one client was constructed for each network, and the cache holds
\* exactly the constructed ones.
OneClientPerNetwork ==
    /\ \A i, j \in DOMAIN created : created[i].network = created[j].network => i = j
    /\ \A i \in DOMAIN created : clientCache[created[i].network] = created[i].client
    /\ \A n \in SignerNetworks :
          clientCache[n].defined => \E i \in DOMAIN created : created[i].network = n

\* A call that did not raise used the one client of its network.
UsesCachedClient ==
    (ClientCall /\ ~signerCall.threw) =>
        /\ signerCall.client.defined
        /\ signerCall.client = clientCache[signerCall.network]

\* A call that raised left no cache entry for its network.
RaiseLeavesNoEntry ==
    (ClientCall /\ signerCall.threw) => ~clientCache[signerCall.network].defined

\* A cached client is never replaced or evicted, and a step of
\* verifySignature leaves the cache as it is.
CacheStep ==
    /\ \A n \in SignerNetworks : clientCache[n].defined => clientCache'[n] = clientCache[n]
    /\ (signerCall'.fn = "verifySignature" /\ signerCall' # signerCall) =>
          clientCache' = clientCache /\ created' = created

\* C34 as stated: per-network client cache of the signer, where a call for a
\* network outside the supported three always raises and adds no entry.
C34_ClientCache_Original ==
    /\ [](/\ OneClientPerNetwork /\ UsesCachedClient /\ RaiseLeavesNoEntry
          /\ (ClientCall /\ signerCall.network \notin SupportedNetworks) =>
                signerCall.threw)
    /\ [][CacheStep]_vars

\* C34 (amended): within one signer, at most one client is constructed per
\* network identifier, every call for that network uses that client, a cached
\* client is never replaced or evicted, verifySignature never changes the
\* cache, and a call for a network outside the supported three raises without
\* adding a cache entry when no custom RPC URL applies to that network; when
\* one does, the call gets a client for that URL, which is cached like any
\* other.
C34_ClientCache ==
    /\ [](/\ OneClientPerNetwork /\ UsesCachedClient /\ RaiseLeavesNoEntry
          /\ (ClientCall /\ signerCall.network \notin SupportedNetworks) =>
                IF Truthy(RpcUrlFor(signerCall.network))
                THEN /\ ~signerCall.threw
                     /\ signerCall.client.url = RpcUrlFor(signerCall.network)
                ELSE signerCall.threw)
    /\ [][CacheStep]_vars

\* Two networks have their clients cached, a later call for the first of them
\* got the cached client, and a call for the unsupported network raised.
C34_Witness ==
    /\ Len(created) = 2
    /\ created[1].network = SUI_MAINNET_CAIP2
    /\ clientCache[SUI_TESTNET_CAIP2].defined
    /\ config = NoConfig
    /\ ~clientCache["sui:localnet"].defined
    /\ signerCall = [fn |-> "waitForTransaction", network |-> "sui:localnet",
                     client |-> NoClient, threw |-> TRUE]

\* ------------------------- runs through the default signer's broadcast

\* What executeTransactionBlock answers with showEffects: the digest and the
\* effects' status, which may be absent, with the error text of a failure.
ChainResponse(d, status, error) == [digest |-> d, status |-> status, error |-> error]

ChainResponses ==
    {ChainResponse(d, "success", UndefinedText) : d \in Digests}
    \cup {ChainResponse(d, st, err) :
            d \in Digests, st \in {"failure", Undefined},
            err \in {UndefinedText, EmptyText, <<"InsufficientGas">>}}

\* Variant of ExecuteOutcome: the digest is returned whatever the status.
ExecuteOutcome_IgnoresStatus(response) == Returns(response.digest)

\* executeTransaction of the default signer after executeTransactionBlock
\* answered (index.ts lines 185-191): the digest, or the error it throws.
ExecuteOutcome(response) ==
    IF response.status # "success"
    THEN Throws(<<"Transaction execution failed: ">>
                    \o (IF TruthyText(response.error) THEN response.error
                        ELSE <<"unknown error">>),
                Undefined)
    ELSE Returns(response.digest)

\* The responses the chain gave to call c's broadcasts, in order.
ResponsesTo(c) ==
    SelectSeq(log[c], LAMBDA e : e.fn = "executeTransactionBlock.return")

\* The chain has accepted the transaction from one of the calls.
Accepted == \E c \in ConcurrentCallIds : ResponsesTo(c) # <<>>

\* Replay protection: the chain accepts and executes the transaction once.
\* The default signer's executeTransaction passes it on, gets the response and
\* returns the digest or throws; settle goes on from there.
defaultExecuteTransaction(c) ==
    /\ pc[c] = "settle_executing"
    /\ ~Accepted
    /\ \E response \in ChainResponses :
          LET out == ExecuteOutcome(response)
              before == <<Event("executeTransactionBlock.return",
                                response.status, response.error, response.digest)>>
          IN  IF out.threw
              THEN executeTransactionRejectsWith(c, out.error, before)
              ELSE executeTransactionResolvesWith(c, out.value, before)

\* The errors the gateway raises in these runs: one per capability, and what
\* the default signer throws on an execution that did not succeed.
ChainGateway ==
    \A c \in ConcurrentCallIds :
        /\ sigP[c].reason \in ConcurrentErrors
        /\ simP[c].reason \in ConcurrentErrors
        /\ (op[c] = "settle" /\ pc[c] = "done") =>
             result[c].errorMessage \in
                {UndefinedText, <<"Network error">>}
                \cup {ExecuteOutcome(r).error.message : r \in ChainResponses}

\* Two calls on the payload of the tests against one chain. A broadcast is
\* accepted by the chain once (defaultExecuteTransaction); every other one is
\* rejected by the node (executeTransactionRejects).
ChainNext ==
    \E c \in ConcurrentCallIds :
        \/ concurrentVerify(c)
        \/ concurrentSettle(c)
        \/ verifySignatureResolves(c)
        \/ verifySignatureRejects(c) /\ ChainGateway'
        \/ simulateTransactionResolves(c)
        \/ simulateTransactionRejects(c) /\ ChainGateway'
        \/ concurrentVerifyResumes(c)
        \/ settleResumes(c)
        \/ defaultExecuteTransaction(c)
        \/ executeTransactionRejects(c) /\ ChainGateway'
        \/ waitForTransactionResolves(c)
        \/ waitForTransactionRejects(c) /\ ChainGateway'

ChainSpec == ConcurrentInit /\ [][ChainNext]_vars

\* The status in the chain's response to call c's broadcast.
StatusGiven(c) == ResponsesTo(c)[1].a1

\* C35: the default signer's broadcast returns a digest only when the
\* executed transaction's effect status is success. When the chain accepted
\* the transaction and its status is anything else, executeTransaction throws:
\* settle returns success = false, errorReason transaction_failed and
\* transaction = "", and waitForTransaction is not called.
C35_BroadcastStatus ==
    \A c \in ConcurrentCallIds :
        ResponsesTo(c) # <<>> =>
            /\ Logged(c, "executeTransaction.return") <=> StatusGiven(c) = "success"
            /\ StatusGiven(c) # "success" =>
                  /\ SettleDone(c)
                  /\ ~result[c].success
                  /\ result[c].errorReason = TRANSACTION_FAILED
                  /\ result[c].transaction = ""
                  /\ ~Logged(c, "waitForTransaction")
                  /\ digest[c] = Undefined

\* The chain executed the transaction with status failure and no error text;
\* settle returned transaction_failed with the message of the default signer.
C35_Witness ==
    \E c \in ConcurrentCallIds :
        /\ ResponsesTo(c) # <<>>
        /\ StatusGiven(c) = "failure"
        /\ SettleDone(c)
        /\ result[c].errorReason = TRANSACTION_FAILED
        /\ result[c].errorMessage = <<"Transaction execution failed: ", "unknown error">>

\* The settle calls that returned success = true.
Settled == {c \in ConcurrentCallIds : SettleDone(c) /\ result[c].success}

\* C33: at most one successful settlement under chain replay protection. With
\* a chain that accepts the transaction once and a gateway that raises on every
\* other broadcast, of the settle calls on one payload, sequential or
\* concurrent, at most one returns success = true; every call that returns
\* success = false carries transaction_failed or the reason of its failed
\* verification.
C33_AtMostOneSettlement ==
    /\ Cardinality(Settled) <= 1
    /\ \A c \in ConcurrentCallIds :
          (SettleDone(c) /\ ~result[c].success) =>
              \/ /\ result[c].errorReason = TRANSACTION_FAILED
                 /\ Logged(c, "executeTransaction")
              \/ /\ ~verification[c].isValid
                 /\ ~Logged(c, "executeTransaction")
                 /\ result[c].errorReason =
                       IF verification[c].invalidReason # Undefined
                       THEN verification[c].invalidReason
                       ELSE "verification_failed"

\* Two concurrent settle calls both passed their verification and both
\* broadcast; one returned success, the other transaction_failed.
C33_Witness ==
    /\ \A c \in ConcurrentCallIds :
          SettleDone(c) /\ verification[c].isValid /\ Logged(c, "executeTransaction")
    /\ Cardinality(Settled) = 1
    /\ \E c \in ConcurrentCallIds :
          ~result[c].success /\ result[c].errorReason = TRANSACTION_FAILED

====
